---- MODULE Spec2Model ----
(***************************************************************************)
(* A model of src/browser_manager.py: the session registry                 *)
(* (BrowserManager._instances), the shared HTTP client, the registry lock  *)
(* and the operations built on them, run by concurrent asyncio tasks.      *)
(*                                                                         *)
(* One action is the code a task runs between two suspension points.  The  *)
(* only suspension points of the manager are its remote HTTP requests:     *)
(* every `async with self._lock` block holds no await, so the lock is      *)
(* free whenever a task is suspended and a block runs without interleaving.*)
(*                                                                         *)
(* The remote service is the environment: it answers each request in       *)
(* flight with a status and a JSON body, or the request fails in transport.*)
(* The service issues each session id at most once.                        *)
(*                                                                         *)
(* A task that returns or raises is idle again, its locals gone; what it   *)
(* returned or raised, with the locals it ended with and the answer it     *)
(* got, is in `last` for the one state that follows.                       *)
(***************************************************************************)
EXTENDS Naturals, Sequences, FiniteSets, TLC

VARIABLES
    instances,  \* BrowserManager._instances: key -> session record
    http,       \* BrowserManager._http: "none", "open" or "closed"
    lock,       \* BrowserManager._lock: the task holding it, or Free
    task,       \* per task: the operation it is suspended in, with its locals
    last,       \* the operation that returned or raised in the last step, if any
    issued,     \* the remote service: the session ids it has issued so far
    script      \* the end-to-end scenario's driver (idle outside the scenario)

vars == <<instances, http, lock, task, last, issued, script>>

----------------------------------------------------------------------------
(* Bounds and value sets                                                   *)

\* update_activity() stamps are counted; a navigate is started only below it
MaxActivity == 1

Tasks == {"t1", "t2"}
SessionIds == {"s1", "s2"}
Tokens == {"k1"}
\* the url a caller asks for, and the url a response may report instead
ReqUrls == {"u1"}
RespUrls == {"u2"}
RespTitles == {"T"}
\* JSON values as Python decodes them: the number d / 10^s (an int if
\* s = 0), a string as its characters, an object, null
Num(d, s) == [t |-> "num", d |-> d, s |-> s]
Text(cs) == [t |-> "str", cs |-> cs]
Obj(f) == [t |-> "dict", f |-> f]
Null == [t |-> "null"]

\* the networks a 402 body offers
BaseNet == ("network" :> "base") @@ ("address" :> "0xA")
SolNet == ("network" :> "solana") @@ ("address" :> "So1") @@ ("token" :> "USDC")

\* a well-formed 402 body: a price in micro-units and one network
PayBodies == {("price" :> Num(1500000, 0)) @@ ("networks" :> <<BaseNet>>)}

\* Python's None where a string is expected, and what str() makes of it
None == "<None>"
Free == "<free>"
Sentinel == "payment_required"
Pending == "pending"

Keys == SessionIds \cup {Sentinel}

----------------------------------------------------------------------------
(* Python helpers                                                          *)

\* dict.get(key, default) on a decoded JSON object
Get(d, k, default) == IF k \in DOMAIN d THEN d[k] ELSE default

\* str(x) as an f-string renders it
Str(x) == IF x = None THEN "None" ELSE x

\* str(resp.status)
StatusText(s) ==
    CASE s = 200 -> "200" [] s = 201 -> "201" [] s = 202 -> "202"
      [] s = 402 -> "402" [] s = 404 -> "404" [] s = 500 -> "500"

\* {} : a dict, or a JSON object, with no key
EmptyDict == [x \in {} |-> None]

RECURSIVE Pow10(_)
Pow10(n) == IF n = 0 THEN 1 ELSE 10 * Pow10(n - 1)

\* a float, held as the decimal d / 10^s with no trailing zero
RECURSIVE Decimal(_, _)
Decimal(d, s) ==
    IF s > 0 /\ d % 10 = 0 THEN Decimal(d \div 10, s - 1) ELSE [d |-> d, s |-> s]

\* an expression that has a float for value, or raises
Value(d, s) == [ok |-> TRUE, usd |-> Decimal(d, s)]
Raises(type) == [ok |-> FALSE, type |-> type]

DigitOf(c) ==
    CASE c = "0" -> 0 [] c = "1" -> 1 [] c = "2" -> 2 [] c = "3" -> 3 [] c = "4" -> 4
      [] c = "5" -> 5 [] c = "6" -> 6 [] c = "7" -> 7 [] c = "8" -> 8 [] c = "9" -> 9
Digits == {"0", "1", "2", "3", "4", "5", "6", "7", "8", "9"}

\* the number a sequence of digits writes
RECURSIVE DigitsValue(_)
DigitsValue(cs) ==
    IF cs = <<>> THEN 0
    ELSE 10 * DigitsValue(SubSeq(cs, 1, Len(cs) - 1)) + DigitOf(cs[Len(cs)])

\* float(s) of a string: digits with at most one point among them (signs,
\* exponents and blanks, which float() reads too, are not modelled);
\* anything else raises ValueError
ParseFloat(cs) ==
    LET points == {i \in 1..Len(cs) : cs[i] = "."}
        digits == SelectSeq(cs, LAMBDA c : c # ".")
    IN  IF /\ \A i \in 1..Len(cs) : cs[i] \in Digits \cup {"."}
           /\ Cardinality(points) <= 1
           /\ digits # <<>>
        THEN Value(DigitsValue(digits),
                   IF points = {} THEN 0 ELSE Len(cs) - (CHOOSE i \in points : TRUE))
        ELSE Raises("ValueError")

\* float(x): a number is itself, a string is parsed, None and a dict raise
Float(x) ==
    CASE x.t = "num" -> Value(x.d, x.s)
      [] x.t = "str" -> ParseFloat(x.cs)
      [] OTHER -> Raises("TypeError")

\* isinstance(price, (int, float)) and price > 1000
IsMicro(price) == price.t = "num" /\ price.d > 1000 * Pow10(price.s)

\* PaymentRequiredError.__init__: the price in USD that its message states
PaymentRequiredError(payment_info) ==
    LET price == IF "price" \in DOMAIN payment_info
                 THEN payment_info["price"] ELSE Num(0, 0)
    IN  IF IsMicro(price) THEN Value(price.d, price.s + 6)
        ELSE IF price.t = "dict"
        THEN Float(IF "amount" \in DOMAIN price.f THEN price.f["amount"] ELSE Num(0, 0))
        ELSE Float(price)

\* (mutant) the dict is replaced by one that holds k alone
PutAlone(d, k, v) == [x \in {k} |-> v]

\* d[k] = v on a dict
Put(d, k, v) == [x \in DOMAIN d \cup {k} |-> IF x = k THEN v ELSE d[x]]

\* del d[k] on a dict that holds k
Del(d, k) == [x \in DOMAIN d \ {k} |-> d[x]]

\* BrowserInstance(instance_id="pending", ...): state defaults to STARTING
NewInstance ==
    [instance_id |-> Pending, state |-> "starting", current_url |-> None,
     title |-> None, last_activity |-> 0]

\* BrowserInstance.update_activity
update_activity(inst) == [inst EXCEPT !.last_activity = @ + 1]

\* (mutant) a client is created at every call
NeedsClientAlways(h) == TRUE

\* if self._http is None or self._http.closed
NeedsClient(h) == h = "none" \/ h = "closed"

\* BrowserManager._get_http: a client exists and is open afterwards
_get_http(h) == IF NeedsClient(h) THEN "open" ELSE h

----------------------------------------------------------------------------
(* Task records: the locals of the operation a task runs.  Four fields are  *)
(* not locals of the code: by names the task, errs notes the ids whose      *)
(* DELETE raised, acc lists the accesses the operation made to the          *)
(* registry, each with the holder of the lock at that moment, and got notes *)
(* for each call of _get_http whether it created a client or reused one.    *)
(* args holds the arguments the operation was called with and the           *)
(* environment variables it read, req the headers and the JSON body of its  *)
(* latest request.                                                          *)

NoRet == [kind |-> "none"]
NoSess == [session_id |-> None, session_token |-> None]
NoInst == [instance_id |-> None]

NoArgs == [options |-> None, params |-> EmptyDict]
NoReq == [headers |-> EmptyDict, body |-> EmptyDict]

IdleTask ==
    [pc |-> "idle", op |-> "none", by |-> None, id |-> None, url |-> None,
     action |-> None, sess |-> NoSess, ids |-> <<>>, idx |-> 0, errs |-> {},
     inst |-> NoInst, calls |-> <<>>, acc |-> <<>>, got |-> <<>>,
     args |-> NoArgs, req |-> NoReq, ret |-> NoRet]

\* a task entering operation o: its locals are fresh
Enter(o) == [IdleTask EXCEPT !.op = o]

\* task t entering operation o
EnterBy(t, o) == [Enter(o) EXCEPT !.by = t]

\* (mutant) the block is entered without taking the lock
AcquireNot(l, t) == l

\* async with self._lock, entered by task t: the lock, free before, is t's
Acquire(l, t) == t

\* (mutant) the lock is kept when the block is left
ReleaseNot(l, t) == l

\* async with self._lock, left by task t
Release(l, t) == IF l = t THEN Free ELSE l

\* a whole `async with self._lock` block run by task t: none holds an await
WithLock(l, t) == Release(Acquire(l, t), t)

\* one access to self._instances: what is done to which key, by which task,
\* and who holds the lock meanwhile
Access(kind, key, by, holder) ==
    [kind |-> kind, key |-> key, by |-> by, holder |-> holder]

\* self makes an access inside a lock block, or outside of any
Locked(self, kind, key) ==
    [self EXCEPT !.acc = Append(@, Access(kind, key, self.by, Acquire(lock, self.by)))]
Unlocked(self, kind, key) ==
    [self EXCEPT !.acc = Append(@, Access(kind, key, self.by, lock))]

Call(method, path, auth) == [method |-> method, path |-> path, auth |-> auth]

\* raise Exception(msg) reaching the caller
Raise(type, msg) == [kind |-> "raise", type |-> type, msg |-> msg]

\* self has called _get_http, the client being h
Fetched(self, h) ==
    [self EXCEPT !.got = Append(@, IF NeedsClient(h) THEN "created" ELSE "reused")]

\* self after a step that left it suspended in a request it has just
\* issued, through the client _get_http gave it
Requesting(self, h) ==
    IF self.pc \in {"cmd_post", "close_delete", "profile_call"}
    THEN Fetched(self, h) ELSE self

\* the answer an operation ended on: none, a decoded response, or a failure
\* of the request itself
NoResp == [kind |-> "none", status |-> 0, data |-> EmptyDict]
Answer(status, data) == [kind |-> "answer", status |-> status, data |-> data]
TransportError == [kind |-> "transport", status |-> 0, data |-> EmptyDict]

NoEvent == [resp |-> NoResp, rec |-> IdleTask]

\* task t goes on as self: suspended in a request, or (pc = "idle") ended,
\* having returned or raised self.ret
Step(t, self, resp) ==
    IF self.pc = "idle"
    THEN /\ task' = [task EXCEPT ![t] = IdleTask]
         /\ last' = [resp |-> resp, rec |-> self]
    ELSE /\ task' = [task EXCEPT ![t] = self]
         /\ last' = NoEvent

\* the scenario driver: the step it is at, and what it noted on its way
ScriptOff == [step |-> "off", id |-> None, url |-> None, page |-> None]

\* BrowserManager.__init__, no task running yet
InitManager ==
    /\ instances = EmptyDict
    /\ http = "none"
    /\ lock = Free
    /\ task = [t \in Tasks |-> IdleTask]
    /\ last = NoEvent
    /\ issued = {}

Init == InitManager /\ script = ScriptOff

----------------------------------------------------------------------------
(* The remote service's answers                                            *)

CreateStatuses == {200, 201, 202, 402, 500}
CommandStatuses == {200, 201, 500}

\* a 2xx creation body: a session id never issued before, a token or none
CreatedBodies ==
    {("session_id" :> sid) : sid \in SessionIds \ issued}
    \cup {("session_id" :> sid) @@ ("session_token" :> k) :
            sid \in SessionIds \ issued, k \in Tokens}

\* a failure body: with or without the server's message
ErrorBodies == {EmptyDict, "error" :> "E"}

CreateBodies(status) ==
    IF status = 402 THEN PayBodies
    ELSE IF status \in {200, 201, 202} THEN CreatedBodies
    ELSE ErrorBodies

----------------------------------------------------------------------------
(* spawn_browser                                                           *)

\* (mutant) the placeholder is stored like a session, named by its key
SentinelRecordAsSession(inst, data) ==
    [instance |-> inst, session_id |-> Sentinel, session_token |-> Sentinel,
     payment_info |-> data]

\* the record stored for a 402 answer
SentinelRecord(inst, data) ==
    [instance |-> inst, session_id |-> None, session_token |-> None,
     payment_info |-> data]

\* (mutant) the token is not defaulted to the session id
SessionTokenNoDefault(data, session_id) == Get(data, "session_token", None)

\* session_token = data.get("session_token", session_id)
SessionToken(data, session_id) == Get(data, "session_token", session_id)

\* (mutant) the instance keeps the transient id it was built with
SessionRecordKeepsPending(inst, data) ==
    LET session_id == Get(data, "session_id", None)
    IN  [instance |-> [inst EXCEPT !.state = "ready"],
         session_id |-> session_id,
         session_token |-> SessionToken(data, session_id)]

\* the record stored for a created session
SessionRecord(inst, data) ==
    LET session_id == Get(data, "session_id", None)
    IN  [instance |-> [inst EXCEPT !.instance_id = session_id, !.state = "ready"],
         session_id |-> session_id,
         session_token |-> SessionToken(data, session_id)]

\* (mutant) every answer but a 402 is taken for a created session
CreatedStatusNot402(status) == status # 402

\* the statuses spawn_browser takes for a created session
CreatedStatus(status) == status \in {200, 201}

\* raise PaymentRequiredError(data), re-raised unchanged
PaymentRequired(self, inst, data) ==
    [self EXCEPT !.pc = "idle", !.inst = inst,
                 !.ret = [kind |-> "raise", type |-> "PaymentRequiredError",
                          payment_info |-> data]]

\* (mutant) the failure is re-raised, the instance left in the state it had
SpawnFailedKeepsState(self, msg) ==
    [self EXCEPT !.pc = "idle",
                 !.ret = Raise("Exception", "Failed to create browser session: " \o msg)]

\* except Exception as e: the in-progress instance turns to error, and the
\* failure is re-raised as a generic one
SpawnFailed(self, msg) ==
    [self EXCEPT !.pc = "idle",
                 !.inst = [@ EXCEPT !.state = "error"],
                 !.ret = Raise("Exception", "Failed to create browser session: " \o msg)]

\* return instance
SpawnReturn(self, rec) ==
    [self EXCEPT !.pc = "idle", !.inst = rec.instance,
                 !.ret = [kind |-> "instance", instance |-> rec.instance]]

\* Python's None where an int is expected; an int n is <<n>>
NoneInt == <<>>

\* the truth value of an Optional[str], and of an Optional[int]
Truthy(x) == x # None /\ x # ""
TruthyInt(n) == n # NoneInt /\ n # <<0>>

\* BrowserOptions(): the defaults of the fields spawn_browser reads
BrowserOptions ==
    [country |-> None, duration_minutes |-> <<60>>, profile_id |-> None,
     payment_signature |-> None]

\* os.environ with neither variable set
NoEnviron == [PAYMENT_SIGNATURE |-> None, BROWSER_INTERNAL_KEY |-> None]

\* body["durationMinutes"] when options.duration_minutes is falsy
DefaultDuration == 60

\* d[k] = v only if cond
PutIf(cond, k, v) == IF cond THEN k :> v ELSE EmptyDict

\* the JSON body of the creation request
CreateBody(options) ==
    PutIf(Truthy(options.country), "country", options.country)
    @@ ("durationMinutes" :>
            IF TruthyInt(options.duration_minutes)
            THEN options.duration_minutes[1] ELSE DefaultDuration)
    @@ PutIf(Truthy(options.profile_id), "profile_id", options.profile_id)

\* (mutant) the environment's signature is preferred to the option's
PaymentSigEnvFirst(options, environ) ==
    IF Truthy(environ.PAYMENT_SIGNATURE) THEN environ.PAYMENT_SIGNATURE
    ELSE options.payment_signature

\* getattr(options, "payment_signature", None) or os.environ.get("PAYMENT_SIGNATURE")
PaymentSig(options, environ) ==
    IF Truthy(options.payment_signature) THEN options.payment_signature
    ELSE environ.PAYMENT_SIGNATURE

\* the headers of the creation request
CreateHeaders(options, environ) ==
    LET payment_sig == PaymentSig(options, environ)
        internal_key == environ.BROWSER_INTERNAL_KEY
    IN  ("Content-Type" :> "application/json")
        @@ PutIf(Truthy(payment_sig), "Payment-Signature", payment_sig)
        @@ PutIf(Truthy(internal_key), "X-Internal-Key", internal_key)

\* spawn_browser(options) up to its POST /v1/sessions, the environment
\* being environ
SpawnRequest(t, options, environ) ==
    /\ task[t].pc = "idle"
    /\ http' = _get_http(http)
    /\ Step(t, Fetched([EnterBy(t, "spawn_browser") EXCEPT
                           !.pc = "spawn_post",
                           !.inst = NewInstance,
                           !.args = [options |-> options, environ |-> environ],
                           !.req = [headers |-> CreateHeaders(options, environ),
                                    body |-> CreateBody(options)],
                           !.calls = <<Call("POST", <<"v1", "sessions">>, None)>>],
                       http),
            NoResp)
    /\ UNCHANGED <<instances, lock, issued>>

\* spawn_browser(BrowserOptions()) with no credential in the environment
SpawnBrowser(t) == SpawnRequest(t, BrowserOptions, NoEnviron)

\* the answer to the creation POST, decoded
SpawnResponse(t, status, data) ==
    /\ task[t].pc = "spawn_post"
    /\ (status = 402 \/ CreatedStatus(status)) => lock = Free
    /\ IF status = 402 THEN
          LET inst == [task[t].inst EXCEPT !.state = "error",
                                           !.instance_id = Sentinel]
              self == Locked(task[t], "insert", Sentinel)
              e == PaymentRequiredError(data)
          IN  /\ instances' = Put(instances, Sentinel, SentinelRecord(inst, data))
              /\ lock' = WithLock(lock, t)
              /\ Step(t, IF e.ok THEN PaymentRequired(self, inst, data)
                         ELSE SpawnFailed([self EXCEPT !.inst = inst], e.type),
                      Answer(status, data))
              /\ UNCHANGED issued
       ELSE IF ~CreatedStatus(status) THEN
          /\ Step(t, SpawnFailed(task[t],
                        Get(data, "error", "API error " \o StatusText(status))),
                  Answer(status, data))
          /\ UNCHANGED <<instances, lock, issued>>
       ELSE
          LET rec == SessionRecord(task[t].inst, data)
          IN  /\ instances' = Put(instances, rec.session_id, rec)
              /\ lock' = WithLock(lock, t)
              /\ issued' = issued \cup {rec.session_id}
              /\ Step(t, SpawnReturn(Locked(task[t], "insert", rec.session_id), rec),
                      Answer(status, data))
    /\ UNCHANGED http

\* the creation POST, or the decoding of its answer, raises
SpawnTransportError(t) ==
    /\ task[t].pc = "spawn_post"
    /\ Step(t, SpawnFailed(task[t], "transport"), TransportError)
    /\ UNCHANGED <<instances, http, lock, issued>>

----------------------------------------------------------------------------
(* send_command and the operations built on it                             *)

\* the operations modelled, and the action each one sends (a direct
\* send_command sends the action its caller names)
CommandOps == {"send_command", "navigate", "get_page_state"}

ActionOf(op) ==
    CASE op = "navigate" -> "navigate"
      [] op = "get_page_state" -> "cookies"
      [] op = "send_command" -> "custom"

\* the params each of them passes to send_command: navigate its url and
\* wait_until, the others none
ParamsOf(op, url) ==
    IF op = "navigate"
    THEN ("url" :> url) @@ ("wait_until" :> "domcontentloaded")
    ELSE EmptyDict

\* the catalogue: the operations that are one send_command each
CatalogueOps ==
    {"click", "type_text", "screenshot", "get_content", "get_text",
     "execute_script", "get_cookies", "set_cookie", "clear_cookies",
     "get_local_storage", "set_local_storage", "wait_for_element",
     "press_key", "scroll"}

\* (mutant) type_text paces its typing whatever human_like says
TypeActionSlow(human_like) == "type_slow"

\* action = "type_slow" if human_like else "type"
TypeAction(human_like) == IF human_like THEN "type_slow" ELSE "type"

\* the action each catalogue operation passes to send_command
CatalogueAction(op, human_like) ==
    CASE op = "click" -> "click"
      [] op = "type_text" -> TypeAction(human_like)
      [] op = "screenshot" -> "screenshot"
      [] op = "get_content" -> "content"
      [] op = "get_text" -> "text"
      [] op = "execute_script" -> "evaluate"
      [] op = "get_cookies" -> "cookies"
      [] op = "set_cookie" -> "set_cookie"
      [] op = "clear_cookies" -> "clear_cookies"
      [] op = "get_local_storage" -> "local_storage"
      [] op = "set_local_storage" -> "set_local_storage"
      [] op = "wait_for_element" -> "wait"
      [] op = "press_key" -> "press"
      [] op = "scroll" -> "scroll"

\* the params each catalogue operation passes, built from its arguments
\* (here one value for each argument)
CatalogueParams(op) ==
    CASE op = "click" -> ("selector" :> "#a")
      [] op = "type_text" -> ("selector" :> "#a") @@ ("text" :> "hi")
      [] op = "screenshot" -> ("full_page" :> FALSE)
      [] op = "get_text" -> ("selector" :> "body")
      [] op = "execute_script" -> ("script" :> "js")
      [] op = "set_cookie" -> ("cookie" :> ("name" :> "c"))
      [] op = "set_local_storage" -> ("items" :> ("k" :> "v"))
      [] op = "wait_for_element" -> ("selector" :> "#a") @@ ("timeout" :> 10000)
      [] op = "press_key" -> ("key" :> "Enter")
      [] op = "scroll" -> ("x" :> 0) @@ ("y" :> 0)
      [] OTHER -> EmptyDict

\* d.update(p): the keys of p, with their values, over those of d
Update(d, p) == p @@ d

\* body = {"action": action}; if params: body.update(params)
CommandBody(action, params) ==
    IF params # EmptyDict THEN Update("action" :> action, params)
    ELSE "action" :> action

\* the headers of a command
CommandHeaders(token) ==
    ("Content-Type" :> "application/json")
    @@ ("Authorization" :> ("Bearer " \o Str(token)))

\* a 200 command body: url and title are each present or not
CommandBodies ==
    {EmptyDict} \cup {("url" :> u) : u \in RespUrls}
    \cup {("title" :> ti) : ti \in RespTitles}
    \cup {("url" :> u) @@ ("title" :> ti) : u \in RespUrls, ti \in RespTitles}

\* session = self._instances.get(instance_id); `not session` is false of a record
Tracked(reg, instance_id) == instance_id \in DOMAIN reg

\* (mutant) the session id is sent as the bearer token
CredentialsIdAsToken(session) ==
    [session_id |-> session.session_id, session_token |-> session.session_id]

\* sid = session["session_id"]; token = session["session_token"]
Credentials(session) ==
    [session_id |-> session.session_id, session_token |-> session.session_token]

\* "Authorization": f"Bearer {token}"
Bearer(token) == "Bearer " \o Str(token)

\* f"{API_BASE}/v1/sessions/{sid}/command"
CommandPath(sid) == <<"v1", "sessions", Str(sid), "command">>

\* the one request send_command issues for a session
CommandCall(sess) == Call("POST", CommandPath(sess.session_id), Bearer(sess.session_token))

\* (mutant) the lookup is not checked: the command is sent with no credentials
NoInstanceUnchecked(self, instance_id) ==
    [self EXCEPT !.pc = "cmd_post",
                 !.calls = <<Call("POST", <<"v1", "sessions", "None", "command">>,
                                  "Bearer None")>>]

\* raise Exception(f"No browser instance: {instance_id}")
NoInstance(self, instance_id) ==
    [self EXCEPT !.pc = "idle",
                 !.ret = Raise("Exception", "No browser instance: " \o Str(instance_id))]

\* send_command from its lookup, made in a lock block, to its POST
Dispatch(self, reg) ==
    LET looked == Locked(self, "read", self.id)
    IN  IF ~Tracked(reg, self.id) THEN NoInstance(looked, self.id)
        ELSE LET sess == Credentials(reg[self.id])
             IN  [looked EXCEPT !.pc = "cmd_post", !.sess = sess,
                                !.req = [headers |-> CommandHeaders(sess.session_token),
                                         body |-> CommandBody(self.action,
                                                              self.args.params)],
                                !.calls = Append(@, CommandCall(sess))]

\* (mutant) the cache takes the requested url, whatever the answer reports
NavigatedRequested(inst, result, url) ==
    update_activity([inst EXCEPT !.current_url = url,
                                 !.title = Get(result, "title", ""),
                                 !.state = "ready"])

\* (mutant) the cache is updated, the activity stamp left as it was
NavigatedNoActivity(inst, result, url) ==
    [inst EXCEPT !.current_url = Get(result, "url", url),
                 !.title = Get(result, "title", ""),
                 !.state = "ready"]

\* (mutant) a title the cache holds already is kept
NavigatedKeepsTitle(inst, result, url) ==
    update_activity([inst EXCEPT !.current_url = Get(result, "url", url),
                                 !.title = IF @ = None THEN Get(result, "title", "")
                                           ELSE @,
                                 !.state = "ready"])

\* the cached view after a successful navigate
Navigated(inst, result, url) ==
    update_activity([inst EXCEPT !.current_url = Get(result, "url", url),
                                 !.title = Get(result, "title", ""),
                                 !.state = "ready"])

\* (mutant) an id that is not tracked any more gets a record again
NavigateUpdateReinserts(reg, instance_id, result, url) ==
    IF Tracked(reg, instance_id)
    THEN [reg EXCEPT ![instance_id].instance = Navigated(@, result, url)]
    ELSE Put(reg, instance_id,
             [instance |-> Navigated([NewInstance EXCEPT !.instance_id = instance_id],
                                     result, url),
              session_id |-> instance_id, session_token |-> instance_id])

\* navigate's lock block: the cache is updated if the id is still tracked
NavigateUpdate(reg, instance_id, result, url) ==
    IF Tracked(reg, instance_id)
    THEN [reg EXCEPT ![instance_id].instance = Navigated(@, result, url)]
    ELSE reg

\* the accesses of navigate's lock block
NavigateAccess(self, reg) ==
    IF Tracked(reg, self.id)
    THEN Locked(Locked(self, "read", self.id), "update", self.id)
    ELSE Locked(self, "read", self.id)

\* x or "" on an Optional[str]
OrEmpty(x) == IF x = None \/ x = "" THEN "" ELSE x

\* list_instances: the cached views of the records, as a set
list_instances(reg) == {reg[k].instance : k \in DOMAIN reg}

\* the PageState get_page_state builds from the cached view
PageStateOf(reg, instance_id) ==
    [instance_id |-> instance_id,
     url |-> IF Tracked(reg, instance_id)
             THEN OrEmpty(reg[instance_id].instance.current_url) ELSE "",
     title |-> IF Tracked(reg, instance_id)
               THEN OrEmpty(reg[instance_id].instance.title) ELSE "",
     ready_state |-> "complete"]

\* return data
Return(self, data) ==
    [self EXCEPT !.pc = "idle", !.ret = [kind |-> "data", data |-> data]]

\* raise Exception(data.get("error", f"Command failed: {resp.status}"))
CommandFailed(self, status, data) ==
    [self EXCEPT !.pc = "idle",
                 !.ret = Raise("Exception",
                               Get(data, "error", "Command failed: " \o StatusText(status)))]

\* an operation of CommandOps up to the POST of its command
SendCommand(t, op, instance_id, url) ==
    /\ task[t].pc = "idle"
    /\ lock = Free
    /\ (op = "navigate") = (url # None)
    /\ (op = "navigate" /\ Tracked(instances, instance_id))
          => instances[instance_id].instance.last_activity < MaxActivity
    /\ LET self == Dispatch([EnterBy(t, op) EXCEPT
                                !.id = instance_id, !.url = url,
                                !.action = ActionOf(op),
                                !.args = [params |-> ParamsOf(op, url)]],
                            instances)
       IN  /\ Step(t, Requesting(self, http), NoResp)
           /\ http' = IF self.pc = "cmd_post" THEN _get_http(http) ELSE http
    /\ lock' = WithLock(lock, t)
    /\ UNCHANGED <<instances, issued>>

\* a catalogue operation up to the POST of its command
CatalogueOp(t, op, instance_id, human_like) ==
    /\ task[t].pc = "idle"
    /\ lock = Free
    /\ LET self == Dispatch([EnterBy(t, op) EXCEPT
                                !.id = instance_id,
                                !.action = CatalogueAction(op, human_like),
                                !.args = [params |-> CatalogueParams(op),
                                          human_like |-> human_like]],
                            instances)
       IN  /\ Step(t, Requesting(self, http), NoResp)
           /\ http' = IF self.pc = "cmd_post" THEN _get_http(http) ELSE http
    /\ lock' = WithLock(lock, t)
    /\ UNCHANGED <<instances, issued>>

----------------------------------------------------------------------------
(* Identity-bundle operations                                              *)

ProfileOps == {"save_profile", "load_profile", "list_profiles", "delete_profile"}

\* the request each of them issues for a session, profile_id and name being
\* its other arguments
ProfileCall(op, sess, profile_id) ==
    CASE op = "save_profile" ->
           Call("POST", <<"v1", "sessions", Str(sess.session_id), "profile">>,
                Bearer(sess.session_token))
      [] op = "load_profile" ->
           Call("POST", <<"v1", "sessions", Str(sess.session_id), "profile", "load">>,
                Bearer(sess.session_token))
      [] op = "list_profiles" ->
           Call("GET", <<"v1", "profiles">>, Bearer(sess.session_token))
      [] op = "delete_profile" ->
           Call("DELETE", <<"v1", "profiles", profile_id>>, Bearer(sess.session_token))

\* its JSON body: save sends the name if it has one, load the profile_id,
\* list and delete send no body
ProfileBody(op, name, profile_id) ==
    CASE op = "save_profile" -> PutIf(Truthy(name), "name", name)
      [] op = "load_profile" -> ("profile_id" :> profile_id)
      [] OTHER -> EmptyDict

\* its headers: list and delete send no Content-Type
ProfileHeaders(op, token) ==
    IF op \in {"save_profile", "load_profile"} THEN CommandHeaders(token)
    ELSE ("Authorization" :> ("Bearer " \o Str(token)))

\* f"Save profile failed: {resp.status}" and its like
ProfileFailedText(op) ==
    CASE op = "save_profile" -> "Save profile failed: "
      [] op = "load_profile" -> "Load profile failed: "
      [] op = "list_profiles" -> "List profiles failed: "
      [] op = "delete_profile" -> "Delete profile failed: "

\* (mutant) every 2xx answer is taken for a success
ProfileOk2xx(status) == status \in {200, 201}

\* if resp.status != 200: raise
ProfileOk(status) == status = 200

\* an identity-bundle operation from its lookup, made in a lock block, to
\* its request
ProfileDispatch(self, reg) ==
    LET looked == Locked(self, "read", self.id)
    IN  IF ~Tracked(reg, self.id) THEN NoInstance(looked, self.id)
        ELSE LET sess == Credentials(reg[self.id])
             IN  [looked EXCEPT
                     !.pc = "profile_call", !.sess = sess,
                     !.req = [headers |-> ProfileHeaders(self.op, sess.session_token),
                              body |-> ProfileBody(self.op, self.args.name,
                                                   self.args.profile_id)],
                     !.calls = Append(@, ProfileCall(self.op, sess,
                                                     self.args.profile_id))]

ProfileOp(t, op, instance_id, name, profile_id) ==
    /\ task[t].pc = "idle"
    /\ lock = Free
    /\ LET self == ProfileDispatch([EnterBy(t, op) EXCEPT
                                       !.id = instance_id,
                                       !.args = [name |-> name,
                                                 profile_id |-> profile_id]],
                                   instances)
       IN  /\ Step(t, Requesting(self, http), NoResp)
           /\ http' = IF self.pc = "profile_call" THEN _get_http(http) ELSE http
    /\ lock' = WithLock(lock, t)
    /\ UNCHANGED <<instances, issued>>

\* the answer to the request, decoded
ProfileResponse(t, status, data) ==
    /\ task[t].pc = "profile_call"
    /\ IF ~ProfileOk(status)
       THEN Step(t, [task[t] EXCEPT
                        !.pc = "idle",
                        !.ret = Raise("Exception",
                                      Get(data, "error",
                                          ProfileFailedText(task[t].op)
                                            \o StatusText(status)))],
                 Answer(status, data))
       ELSE Step(t, Return(task[t], data), Answer(status, data))
    /\ UNCHANGED <<instances, http, lock, issued>>

\* the request, or the decoding of its answer, raises
ProfileTransportError(t) ==
    /\ task[t].pc = "profile_call"
    /\ Step(t, [task[t] EXCEPT !.pc = "idle",
                               !.ret = Raise("ClientError", "transport")],
            TransportError)
    /\ UNCHANGED <<instances, http, lock, issued>>

----------------------------------------------------------------------------
(* Answers to commands                                                     *)

\* (mutant) every 2xx answer is taken for a success
CommandOk2xx(status) == status \in {200, 201}

\* the status send_command takes for a success
CommandOk(status) == status = 200

\* (mutant) every operation updates the cache from the answer
UpdatesCacheAlways(op) == TRUE

\* the operations that go on, after send_command has returned, to a lock
\* block that updates the cached view: navigate alone
UpdatesCache(op) == op = "navigate"

\* the answer to the command POST, decoded, and what the operation does with it
CommandResponse(t, status, data) ==
    /\ task[t].pc = "cmd_post"
    /\ IF ~CommandOk(status) THEN
          /\ Step(t, CommandFailed(task[t], status, data), Answer(status, data))
          /\ UNCHANGED <<instances, lock>>
       ELSE IF UpdatesCache(task[t].op) THEN
          /\ lock = Free
          /\ instances' = NavigateUpdate(instances, task[t].id, data, task[t].url)
          /\ lock' = WithLock(lock, t)
          /\ Step(t, Return(NavigateAccess(task[t], instances), data),
                  Answer(status, data))
       ELSE IF task[t].op = "get_page_state" THEN
          /\ Step(t, [Unlocked(task[t], "read", task[t].id) EXCEPT
                         !.pc = "idle",
                         !.ret = [kind |-> "page",
                                  page |-> PageStateOf(instances, task[t].id)]],
                  Answer(status, data))
          /\ UNCHANGED <<instances, lock>>
       ELSE
          /\ Step(t, Return(task[t], data), Answer(status, data))
          /\ UNCHANGED <<instances, lock>>
    /\ UNCHANGED <<http, issued>>

\* the command POST, or the decoding of its answer, raises
CommandTransportError(t) ==
    /\ task[t].pc = "cmd_post"
    /\ Step(t, [task[t] EXCEPT !.pc = "idle",
                               !.ret = Raise("ClientError", "transport")],
            TransportError)
    /\ UNCHANGED <<instances, http, lock, issued>>

----------------------------------------------------------------------------
(* close_browser, close_all                                                *)

\* f"{API_BASE}/v1/sessions/{sid}"
SessionPath(sid) == <<"v1", "sessions", Str(sid)>>

\* the one request close_browser issues for a session
DeleteCall(sess) == Call("DELETE", SessionPath(sess.session_id), Bearer(sess.session_token))

\* (mutant) the record is not removed once the DELETE was answered
DeleteAnsweredKeeps(reg, instance_id) == reg

\* del self._instances[instance_id] after the DELETE was answered; a KeyError
\* lands in the except branch, which finds the key gone
DeleteAnswered(reg, instance_id) ==
    IF Tracked(reg, instance_id) THEN Del(reg, instance_id) ELSE reg

\* (mutant) the except branch returns without removing the record
DeleteFailedKeeps(reg, instance_id) == reg

\* except Exception: if instance_id in self._instances: del ...
DeleteFailed(reg, instance_id) ==
    IF Tracked(reg, instance_id) THEN Del(reg, instance_id) ELSE reg

\* list(self._instances.keys()): the keys in the dict's order, which is any
Orders(S) ==
    {f \in [1..Cardinality(S) -> S] : \A a \in S : \E i \in 1..Cardinality(S) : f[i] = a}

\* close_all's loop from position i: ids that are no longer tracked return
\* False at once; the first tracked one is the next to be closed
NextTracked(ids, i, reg) ==
    LET js == {j \in i..Len(ids) : Tracked(reg, ids[j])}
    IN  IF js = {} THEN Len(ids) + 1
        ELSE CHOOSE j \in js : \A k \in js : j <= k

\* (mutant) an id that is not tracked is reported closed
CloseLookupTrueIfAbsent(self, reg) ==
    LET looked == Locked(self, "read", self.id)
    IN  IF ~Tracked(reg, self.id)
        THEN [looked EXCEPT !.pc = "idle", !.ret = [kind |-> "bool", bool |-> TRUE]]
        ELSE LET sess == Credentials(reg[self.id])
             IN  [looked EXCEPT !.pc = "close_delete", !.sess = sess,
                                !.calls = Append(@, DeleteCall(sess))]

\* close_browser from its lookup, made in a lock block, to its DELETE
CloseLookup(self, reg) ==
    LET looked == Locked(self, "read", self.id)
    IN  IF ~Tracked(reg, self.id)
        THEN [looked EXCEPT !.pc = "idle", !.ret = [kind |-> "bool", bool |-> FALSE]]
        ELSE LET sess == Credentials(reg[self.id])
             IN  [looked EXCEPT !.pc = "close_delete", !.sess = sess,
                                !.calls = Append(@, DeleteCall(sess))]

\* the lookups of the close_browser calls that find ids[i..j-1] not tracked
SkippedLookups(self, i, j) ==
    [self EXCEPT !.acc = @ \o [k \in 1..(j - i) |->
                                 Access("read", self.ids[i + k - 1], self.by,
                                        Acquire(lock, self.by))]]

\* close_all's loop from position i up to the next DELETE, or to its end
CloseNext(self, i, reg) ==
    LET j == NextTracked(self.ids, i, reg)
        skipped == SkippedLookups(self, i, j)
    IN  IF j > Len(self.ids)
        THEN [skipped EXCEPT !.pc = "idle", !.idx = j, !.ret = [kind |-> "returned"]]
        ELSE CloseLookup([skipped EXCEPT !.idx = j, !.id = self.ids[j]], reg)

\* (mutant) close_all stops at the first id whose DELETE raised
ClosedStopsOnError(self, reg) ==
    IF self.op = "close_browser"
    THEN [self EXCEPT !.pc = "idle", !.ret = [kind |-> "bool", bool |-> TRUE]]
    ELSE IF self.errs # {}
    THEN [self EXCEPT !.pc = "idle", !.ret = [kind |-> "returned"]]
    ELSE CloseNext(self, self.idx + 1, reg)

\* the rest of close_browser once the registry is reg, and of close_all's loop
Closed(self, reg) ==
    IF self.op = "close_browser"
    THEN [self EXCEPT !.pc = "idle", !.ret = [kind |-> "bool", bool |-> TRUE]]
    ELSE CloseNext(self, self.idx + 1, reg)

\* (mutant) the KeyError of a del on a key that is gone leaves close_browser
DeletedKeyErrorEscapes(self, reg, new) ==
    IF self.op = "close_browser" /\ ~Tracked(reg, self.id)
    THEN [self EXCEPT !.pc = "idle", !.ret = Raise("KeyError", self.id)]
    ELSE Closed(self, new)

\* the try block from its del on, the registry being reg before it and new
\* after: `return True`, also when the del raised KeyError on a key that
\* was gone, which except Exception catches
Deleted(self, reg, new) == Closed(self, new)

\* the accesses of `del self._instances[instance_id]` after the DELETE was
\* answered, and of the except branch a KeyError leads to
DeleteAnsweredAccess(self, reg) ==
    IF Tracked(reg, self.id) THEN Locked(self, "delete", self.id)
    ELSE Locked(Locked(self, "delete", self.id), "read", self.id)

\* the accesses of the except branch
DeleteFailedAccess(self, reg) ==
    IF Tracked(reg, self.id)
    THEN Locked(Locked(self, "read", self.id), "delete", self.id)
    ELSE Locked(self, "read", self.id)

\* (mutant) cleanup leaves the client as it is
ClosingNot(h) == h

\* if self._http and not self._http.closed: await self._http.close()
Closing(h) == IF h = "open" THEN "closed" ELSE h

\* the client once the operation is at self: fetched for the next DELETE,
\* closed at the end of cleanup, as it was otherwise
HttpAfter(self, h) ==
    IF self.pc = "close_delete" THEN _get_http(h)
    ELSE IF self.op = "cleanup" THEN Closing(h)
    ELSE h

\* close_browser up to its DELETE
CloseBrowser(t, instance_id) ==
    /\ task[t].pc = "idle"
    /\ lock = Free
    /\ LET self == CloseLookup([EnterBy(t, "close_browser") EXCEPT !.id = instance_id],
                               instances)
       IN  /\ Step(t, Requesting(self, http), NoResp)
           /\ http' = HttpAfter(self, http)
    /\ lock' = WithLock(lock, t)
    /\ UNCHANGED <<instances, issued>>

\* close_all, or cleanup (op), from its snapshot of the keys up to the DELETE
\* of its first id
ClosingAll(t, op, ids) ==
    /\ task[t].pc = "idle"
    /\ lock = Free
    /\ ids \in Orders(DOMAIN instances)
    /\ LET self == CloseNext(Locked([EnterBy(t, op) EXCEPT !.ids = ids],
                                    "keys", None), 1, instances)
       IN  /\ Step(t, Requesting(self, http), NoResp)
           /\ http' = HttpAfter(self, http)
    /\ lock' = WithLock(lock, t)
    /\ UNCHANGED <<instances, issued>>

\* close_all up to the DELETE of its first id
CloseAll(t, ids) == ClosingAll(t, "close_all", ids)

\* cleanup up to the DELETE of its first id
Cleanup(t, ids) == ClosingAll(t, "cleanup", ids)

\* the DELETE is answered, with whatever status
CloseResponse(t, status) ==
    /\ task[t].pc = "close_delete"
    /\ lock = Free
    /\ instances' = DeleteAnswered(instances, task[t].id)
    /\ LET self == Deleted(DeleteAnsweredAccess(task[t], instances),
                           instances, instances')
       IN  /\ Step(t, Requesting(self, http), Answer(status, EmptyDict))
           /\ http' = HttpAfter(self, http)
    /\ lock' = WithLock(lock, t)
    /\ UNCHANGED issued

\* the DELETE raises
CloseTransportError(t) ==
    /\ task[t].pc = "close_delete"
    /\ lock = Free
    /\ instances' = DeleteFailed(instances, task[t].id)
    /\ LET self == Closed(DeleteFailedAccess([task[t] EXCEPT !.errs = @ \cup {task[t].id}],
                                             instances), instances')
       IN  /\ Step(t, Requesting(self, http), TransportError)
           /\ http' = HttpAfter(self, http)
    /\ lock' = WithLock(lock, t)
    /\ UNCHANGED issued

----------------------------------------------------------------------------
(* The manager used by one caller at a time: every operation runs to its   *)
(* end before the next one starts, against every answer of the service     *)

Callers == {"t1"}
ArgIds == Keys

Next ==
    \/ \E t \in Callers : SpawnBrowser(t) /\ UNCHANGED script
    \/ \E t \in Callers, status \in CreateStatuses :
          \E data \in CreateBodies(status) :
             SpawnResponse(t, status, data) /\ UNCHANGED script
    \/ \E t \in Callers : SpawnTransportError(t) /\ UNCHANGED script
    \/ \E t \in Callers, op \in CommandOps, id \in ArgIds, url \in ReqUrls \cup {None} :
          SendCommand(t, op, id, url) /\ UNCHANGED script
    \/ \E t \in Callers, status \in CommandStatuses :
          \E data \in (IF status = 200 THEN CommandBodies ELSE ErrorBodies) :
             CommandResponse(t, status, data) /\ UNCHANGED script
    \/ \E t \in Callers : CommandTransportError(t) /\ UNCHANGED script
    \/ \E t \in Callers, id \in ArgIds : CloseBrowser(t, id) /\ UNCHANGED script
    \/ \E t \in Callers : \E ids \in Orders(DOMAIN instances) :
          CloseAll(t, ids) /\ UNCHANGED script
    \/ \E t \in Callers : \E ids \in Orders(DOMAIN instances) :
          Cleanup(t, ids) /\ UNCHANGED script
    \/ \E t \in Callers, status \in CommandStatuses :
          CloseResponse(t, status) /\ UNCHANGED script
    \/ \E t \in Callers : CloseTransportError(t) /\ UNCHANGED script

Spec == Init /\ [][Next]_vars

----------------------------------------------------------------------------
(* The end-to-end scenario: one caller creates a session, navigates it,     *)
(* reads its page state, closes it, and then sends it commands; the service *)
(* answers each request as it likes, and the caller goes on only as far as  *)
(* the scenario says (a failed creation or navigation ends it)              *)

Ended == last.rec

ScCreate ==
    /\ script.step = "create"
    /\ SpawnBrowser("t1")
    /\ script' = [script EXCEPT !.step = "navigate"]

ScNavigate(url) ==
    /\ script.step = "navigate"
    /\ Ended.op = "spawn_browser" /\ Ended.ret.kind = "instance"
    /\ SendCommand("t1", "navigate", Ended.ret.instance.instance_id, url)
    /\ script' = [script EXCEPT !.step = "page",
                                !.id = Ended.ret.instance.instance_id]

\* the driver notes the url the navigation ended on: the answer's, else its own
ScPageState ==
    /\ script.step = "page"
    /\ Ended.op = "navigate" /\ Ended.ret.kind = "data"
    /\ SendCommand("t1", "get_page_state", script.id, None)
    /\ script' = [script EXCEPT !.step = "close",
                                !.url = IF "url" \in DOMAIN last.resp.data
                                        THEN last.resp.data["url"] ELSE Ended.url]

\* the driver notes the url get_page_state reported
ScClose ==
    /\ script.step = "close"
    /\ Ended.op = "get_page_state" /\ Ended.ret.kind = "page"
    /\ CloseBrowser("t1", script.id)
    /\ script' = [script EXCEPT !.step = "after", !.page = Ended.ret.page.url]

ScAfter(op, url) ==
    /\ script.step = "after"
    /\ SendCommand("t1", op, script.id, url)
    /\ UNCHANGED script

ScenarioInit == InitManager /\ script = [ScriptOff EXCEPT !.step = "create"]

ScenarioNext ==
    \/ ScCreate
    \/ \E url \in ReqUrls : ScNavigate(url)
    \/ ScPageState
    \/ ScClose
    \/ \E op \in CommandOps, url \in ReqUrls \cup {None} : ScAfter(op, url)
    \/ \E status \in CreateStatuses : \E data \in CreateBodies(status) :
          SpawnResponse("t1", status, data) /\ UNCHANGED script
    \/ SpawnTransportError("t1") /\ UNCHANGED script
    \/ \E status \in CommandStatuses :
          \E data \in (IF status = 200 THEN CommandBodies ELSE ErrorBodies) :
             CommandResponse("t1", status, data) /\ UNCHANGED script
    \/ CommandTransportError("t1") /\ UNCHANGED script
    \/ \E status \in CommandStatuses : CloseResponse("t1", status) /\ UNCHANGED script
    \/ CloseTransportError("t1") /\ UNCHANGED script

ScenarioSpec == ScenarioInit /\ [][ScenarioNext]_vars

----------------------------------------------------------------------------
(* The manager used by two tasks at once: while one is suspended in a       *)
(* request the other runs.  The operations are those whose lock blocks      *)
(* write the registry (spawn_browser, navigate, close_browser, cleanup);    *)
(* the service                                                              *)
(* answers a creation with a new session or a 402, a command with a 200,    *)
(* and a DELETE with a 200 or not at all                                    *)

ConcCreateStatuses == {200, 402}

ConcCreateBodies(status) ==
    {data \in CreateBodies(status) : "session_token" \notin DOMAIN data}

ConcNext ==
    \/ \E t \in Tasks : SpawnBrowser(t) /\ UNCHANGED script
    \/ \E t \in Tasks, status \in ConcCreateStatuses :
          \E data \in ConcCreateBodies(status) :
             SpawnResponse(t, status, data) /\ UNCHANGED script
    \/ \E t \in Tasks, id \in SessionIds, url \in ReqUrls :
          SendCommand(t, "navigate", id, url) /\ UNCHANGED script
    \/ \E t \in Tasks : CommandResponse(t, 200, EmptyDict) /\ UNCHANGED script
    \/ \E t \in Tasks : \E ids \in Orders(DOMAIN instances) :
          Cleanup(t, ids) /\ UNCHANGED script
    \/ \E t \in Tasks, id \in SessionIds : CloseBrowser(t, id) /\ UNCHANGED script
    \/ \E t \in Tasks : CloseResponse(t, 200) /\ UNCHANGED script
    \/ \E t \in Tasks : CloseTransportError(t) /\ UNCHANGED script

ConcSpec == Init /\ [][ConcNext]_vars

----------------------------------------------------------------------------
(* Reading a step                                                          *)

\* it ended on a decoded answer of the service
Answered == last.resp.kind = "answer"

\* task t enters operation op on instance_id in this step: it is suspended in
\* it afterwards, or the operation has ended at once, with no answer
Calls(t, op, instance_id) ==
    /\ task[t].pc = "idle"
    /\ \/ /\ task'[t].pc # "idle"
          /\ task'[t].op = op /\ task'[t].id = instance_id
       \/ /\ task'[t].pc = "idle"
          /\ last'.resp.kind = "none"
          /\ last'.rec.op = op /\ last'.rec.id = instance_id

\* task t's operation ends in this step
Ends(t) == task[t].pc # "idle" /\ task'[t].pc = "idle"

----------------------------------------------------------------------------
(* Claims                                                                  *)

\* C1: whenever spawn_browser has returned an instance, its instance_id is the
\* answer's session_id, and the registry holds under that id a record whose
\* session_token is the answer's session_token, or the session_id when the
\* answer has no session_token field.
C1_SpawnBindsSession ==
    (Ended.op = "spawn_browser" /\ Ended.ret.kind = "instance") =>
        LET data == last.resp.data
            id == Ended.ret.instance.instance_id
        IN  /\ "session_id" \in DOMAIN data
            /\ id = data["session_id"]
            /\ id \in DOMAIN instances
            /\ instances[id].session_token =
                  IF "session_token" \in DOMAIN data
                  THEN data["session_token"] ELSE data["session_id"]

\* a creation answered without a token has returned, while another session,
\* created with a token of its own, is tracked
C1_Witness ==
    /\ Ended.op = "spawn_browser" /\ Ended.ret.kind = "instance"
    /\ "session_token" \notin DOMAIN last.resp.data
    /\ instances[Ended.ret.instance.instance_id].session_token
          = Ended.ret.instance.instance_id
    /\ \E k \in DOMAIN instances : instances[k].session_token \in Tokens

\* C2: a command called with an id that is not a key of the registry ends at
\* once with the unknown-instance error, has issued no request, and leaves the
\* registry as it was.
C2_UnknownInstanceFails ==
    [][\A t \in Tasks, op \in CommandOps, id \in ArgIds :
          (Calls(t, op, id) /\ id \notin DOMAIN instances) =>
              /\ task'[t].pc = "idle"
              /\ last'.rec.ret = [kind |-> "raise", type |-> "Exception",
                                  msg |-> "No browser instance: " \o id]
              /\ last'.rec.calls = <<>>
              /\ instances' = instances]_vars

\* a command on an id that is not tracked has ended, while another is tracked
C2_Witness ==
    /\ Ended.op = "send_command" /\ last.resp.kind = "none"
    /\ Ended.id \notin DOMAIN instances
    /\ Ended.ret.kind = "raise" /\ Ended.calls = <<>>
    /\ instances # EmptyDict

\* C3: a command called with a tracked id issues one request, a POST to the
\* command endpoint of that record's session_id with the header "Bearer " and
\* that record's session_token, and it has issued no other request when it
\* ends; the id and token of another record are used only where they are the
\* same as this record's.
C3_OneAuthenticatedCall ==
    [][\A t \in Tasks :
          /\ \A op \in CommandOps, id \in ArgIds :
                (Calls(t, op, id) /\ id \in DOMAIN instances) =>
                    /\ task'[t].pc = "cmd_post"
                    /\ task'[t].calls =
                          <<[method |-> "POST",
                             path |-> <<"v1", "sessions",
                                        Str(instances[id].session_id), "command">>,
                             auth |-> "Bearer " \o Str(instances[id].session_token)]>>
          /\ (Ends(t) /\ task[t].pc = "cmd_post") =>
                /\ last'.rec.calls = task[t].calls
                /\ Len(last'.rec.calls) = 1]_vars

\* a command on s1 has been answered while s2 is tracked with another token
C3_Witness ==
    /\ Ended.op = "send_command" /\ Answered /\ Ended.id = "s1"
    /\ Len(Ended.calls) = 1
    /\ Ended.calls[1].auth = "Bearer k1"
    /\ "s2" \in DOMAIN instances /\ instances["s2"].session_token = "s2"

\* C4 (the claim as stated): no command is ever sent for the key
\* payment_required: a command called with it ends at once with the
\* unknown-instance error, having issued no request.
C4_SentinelNotDispatched ==
    /\ \A t \in Tasks : task[t].pc = "cmd_post" => task[t].id # Sentinel
    /\ (Ended.op \in CommandOps /\ Ended.id = Sentinel) =>
          /\ Ended.calls = <<>>
          /\ Ended.ret = [kind |-> "raise", type |-> "Exception",
                          msg |-> "No browser instance: " \o Sentinel]

C6_CreationErrorLeavesRegistry ==
    [][(last'.rec.op = "spawn_browser" /\ last'.resp.kind = "answer"
          /\ last'.resp.status # 402
          /\ ~(last'.resp.status >= 200 /\ last'.resp.status <= 299)) =>
          /\ last'.rec.ret =
                [kind |-> "raise", type |-> "Exception",
                 msg |-> "Failed to create browser session: " \o
                         (IF "error" \in DOMAIN last'.resp.data
                          THEN last'.resp.data["error"]
                          ELSE "API error " \o StatusText(last'.resp.status))]
          /\ instances' = instances]_vars

\* a creation answered 500 without a message has raised, sessions being tracked
C6_Witness ==
    /\ Ended.op = "spawn_browser" /\ Answered /\ last.resp.status = 500
    /\ Ended.ret.kind = "raise"
    /\ Ended.ret.msg = "Failed to create browser session: API error 500"
    /\ instances # EmptyDict

\* C7: a close_browser that sent its DELETE returns True whether the DELETE
\* raised or was answered with any status, and its id is then not a key of the
\* registry.
C7_CloseRemovesDespiteFailure ==
    (Ended.op = "close_browser" /\ last.resp.kind \in {"transport", "answer"}) =>
        /\ Ended.ret = [kind |-> "bool", bool |-> TRUE]
        /\ Ended.id \notin DOMAIN instances

\* a close_browser whose DELETE raised has returned
C7_Witness ==
    /\ Ended.op = "close_browser" /\ last.resp.kind = "transport"
    /\ Ended.errs = {Ended.id}
    /\ Ended.ret.kind = "bool" /\ Ended.ret.bool
    /\ Ended.id \notin DOMAIN instances

\* C8: close_all takes every key of the registry, and when it returns none of
\* the keys it took is a key of the registry, whichever of their DELETEs raised.
C8_CloseAllRemovesAll ==
    [][/\ \A t \in Tasks :
             /\ (task[t].pc = "idle" /\ task'[t].op = "close_all") =>
                   {task'[t].ids[i] : i \in 1..Len(task'[t].ids)} = DOMAIN instances
             /\ (task[t].op = "close_all" /\ task'[t].op = "close_all") =>
                   task'[t].ids = task[t].ids
             /\ (task[t].op = "close_all" /\ Ends(t)) =>
                   last'.rec.ids = task[t].ids
       /\ (last'.rec.op = "close_all" /\ last'.resp.kind = "none") =>
             {last'.rec.ids[i] : i \in 1..Len(last'.rec.ids)} = DOMAIN instances
       /\ last'.rec.op = "close_all" =>
             \A i \in 1..Len(last'.rec.ids) :
                 last'.rec.ids[i] \notin DOMAIN instances']_vars

\* a close_all of three keys has returned after the DELETE of its first key
\* raised and that of its last did not
C8_Witness ==
    /\ Ended.op = "close_all" /\ Len(Ended.ids) = 3
    /\ Ended.ids[1] \in Ended.errs /\ Ended.ids[3] \notin Ended.errs
    /\ Len(Ended.calls) = 3
    /\ instances = EmptyDict

\* C10: when a navigate has returned and its id is tracked, the cached
\* current_url is the answer's url field, or the requested url if the answer
\* has none; the cached title is the answer's title field, or "" if it has
\* none; the cached state is ready.
C10_NavigateUpdatesCache ==
    (Ended.op = "navigate" /\ Ended.ret.kind = "data"
       /\ Ended.id \in DOMAIN instances) =>
        LET data == last.resp.data
            inst == instances[Ended.id].instance
        IN  /\ inst.current_url =
                  IF "url" \in DOMAIN data THEN data["url"] ELSE Ended.url
            /\ inst.title = IF "title" \in DOMAIN data THEN data["title"] ELSE ""
            /\ inst.state = "ready"

\* a navigate answered with a url of its own and no title has returned
C10_Witness ==
    /\ Ended.op = "navigate" /\ Ended.ret.kind = "data"
    /\ Ended.id \in SessionIds /\ Ended.id \in DOMAIN instances
    /\ DOMAIN last.resp.data = {"url"}
    /\ instances[Ended.id].instance.current_url = "u2"
    /\ instances[Ended.id].instance.current_url # Ended.url
    /\ instances[Ended.id].instance.title = ""

\* C9: in the scenario, get_page_state reports for the created id the url
\* the navigate ended on (the answer's url, else the requested one); and once
\* close_browser has returned, every command on that id ends at once with the
\* unknown-instance error, having issued no request.
C9_Scenario ==
    /\ (script.step = "close" /\ Ended.op = "get_page_state"
          /\ Ended.ret.kind = "page") =>
          /\ Ended.ret.page.url = script.url
          /\ Ended.ret.page.instance_id = script.id
    /\ script.step = "after" =>
          /\ \A t \in Tasks : task[t].pc \in {"idle", "close_delete"}
          /\ Ended.op \in CommandOps =>
                /\ Ended.calls = <<>>
                /\ Ended.ret = [kind |-> "raise", type |-> "Exception",
                                msg |-> "No browser instance: " \o script.id]

\* the scenario has run to its end: get_page_state reported the url the
\* service answered the navigate with, and the navigate after the close raised
C9_Witness ==
    /\ script.step = "after"
    /\ script.url = "u2" /\ script.page = "u2"
    /\ Ended.op = "navigate" /\ Ended.ret.kind = "raise"
    /\ Ended.id = script.id

\* C11 (the claim as stated): a close_browser that has returned False was
\* called with an id that was never a key of the registry, and has issued no
\* request; called with a session id that was a key at some earlier time, it
\* has returned True.
C11_FalseOnlyIfNeverPresent ==
    Ended.op = "close_browser" =>
        /\ Ended.ret.bool = FALSE => (Ended.id \notin issued /\ Ended.calls = <<>>)
        /\ Ended.id \in issued => Ended.ret.bool = TRUE

\* C11 (amended): close_browser returns False exactly when its id is not a
\* key of the registry at its lookup, whether the id never was one or has
\* been removed since; it has then issued no request and changed neither the
\* registry nor the client.  With an id that is a key at its lookup it sends
\* its DELETE and returns True.
C11_FalseIffNotTracked ==
    [][\A t \in Tasks :
          /\ \A id \in ArgIds :
                Calls(t, "close_browser", id) =>
                    IF id \in DOMAIN instances
                    THEN /\ task'[t].pc = "close_delete"
                         /\ Len(task'[t].calls) = 1
                    ELSE /\ task'[t].pc = "idle"
                         /\ last'.rec.ret = [kind |-> "bool", bool |-> FALSE]
                         /\ last'.rec.calls = <<>>
                         /\ instances' = instances
                         /\ http' = http
          /\ (Ends(t) /\ task[t].op = "close_browser") =>
                last'.rec.ret = [kind |-> "bool", bool |-> TRUE]]_vars

\* a close_browser of a session that was created, and closed before, has
\* returned False
C11_Witness ==
    /\ Ended.op = "close_browser" /\ Ended.ret.kind = "bool"
    /\ Ended.ret.bool = FALSE
    /\ Ended.id \in issued /\ Ended.id \notin DOMAIN instances
    /\ Ended.calls = <<>>

\* C12: a cleanup returns, and raises nothing, whichever of its DELETEs
\* raised; the registry is then empty and the client is not open.  A cleanup
\* called right after a cleanup has returned returns at once, having issued
\* no request, and leaves the registry empty and the client not open.
C12_CleanupIdempotent ==
    [][/\ last'.rec.op = "cleanup" =>
             /\ last'.rec.ret = [kind |-> "returned"]
             /\ instances' = EmptyDict
             /\ http' # "open"
       /\ \A t \in Tasks :
             (last.rec.op = "cleanup" /\ task[t].pc = "idle"
                /\ (task'[t].op = "cleanup" \/ last'.rec.op = "cleanup")) =>
                 /\ task'[t].pc = "idle"
                 /\ last'.rec.op = "cleanup"
                 /\ last'.rec.calls = <<>>
                 /\ last'.rec.ret = [kind |-> "returned"]
                 /\ instances' = EmptyDict
                 /\ http' = http]_vars

\* a cleanup has returned without a request, the client closed by a cleanup
\* before it that had two DELETEs to send
C12_Witness ==
    /\ Ended.op = "cleanup" /\ Ended.calls = <<>>
    /\ Ended.ret.kind = "returned"
    /\ http = "closed" /\ instances = EmptyDict
    /\ issued = SessionIds

\* C13 (the claim as stated): when a cleanup has returned, no key is in the
\* registry and the client is not open, whatever spawn_browser calls of
\* another task ran while the cleanup was suspended in its DELETEs.
C13_CleanupLeavesNothing ==
    Ended.op = "cleanup" => (instances = EmptyDict /\ http # "open")

\* a step in which close_browser, called directly or from close_all's loop,
\* gets the outcome of its DELETE for key k
Closes(k) ==
    \E t \in Tasks : /\ task[t].pc = "close_delete" /\ task[t].id = k
                     /\ task'[t] # task[t]

\* a step in which a spawn_browser returns the instance of session k, the
\* service having answered its POST with that session_id
Creates(k) ==
    /\ last'.rec.op = "spawn_browser" /\ last'.rec.ret.kind = "instance"
    /\ last'.rec.ret.instance.instance_id = k
    /\ "session_id" \in DOMAIN last'.resp.data
    /\ last'.resp.data["session_id"] = k

After(t) == IF last'.rec.by = t THEN last'.rec ELSE task'[t]

\* the accesses to the registry task t made in a step
Fresh(t) ==
    LET before == IF task[t].pc = "idle" THEN 0 ELSE Len(task[t].acc)
    IN  SubSeq(After(t).acc, before + 1, Len(After(t).acc))

\* the kinds of access that write key k in a step from registry reg to new
Writes(k, reg, new) ==
    IF k \notin DOMAIN reg THEN {"insert"}
    ELSE IF k \notin DOMAIN new THEN {"delete"}
    ELSE {"insert", "update"}

\* C15: every step that changes the registry is the step of one task, the
\* other being left where it was; every key that enters, leaves or changes
\* was written by that task in an access made while it held the lock; all
\* its writes in the step were made so; and the lock is free before and
\* after the step, so that no write of another task falls between them.
C15_MutationsUnderLock ==
    [][instances' # instances =>
          /\ lock = Free /\ lock' = Free
          /\ \E t \in Tasks :
                /\ \A u \in Tasks \ {t} : task'[u] = task[u]
                /\ \A k \in DOMAIN instances \cup DOMAIN instances' :
                      (k \notin DOMAIN instances \/ k \notin DOMAIN instances'
                         \/ instances'[k] # instances[k]) =>
                          \E i \in 1..Len(Fresh(t)) :
                              /\ Fresh(t)[i].key = k
                              /\ Fresh(t)[i].kind \in Writes(k, instances, instances')
                              /\ Fresh(t)[i].by = t
                              /\ Fresh(t)[i].holder = t
                /\ \A i \in 1..Len(Fresh(t)) :
                      Fresh(t)[i].kind \in {"insert", "update", "delete"} =>
                          Fresh(t)[i].holder = t]_vars

\* a navigate of one task has updated the cache of a session while the other
\* task is suspended in the POST of a spawn_browser
C15_Witness ==
    /\ Ended.op = "navigate" /\ Ended.ret.kind = "data"
    /\ \E i \in 1..Len(Ended.acc) :
          /\ Ended.acc[i].kind = "update" /\ Ended.acc[i].holder = Ended.by
    /\ instances[Ended.id].instance.last_activity > 0
    /\ \E u \in Tasks \ {Ended.by} : task[u].pc = "spawn_post"

\* C16: whenever a task is suspended in a request, the lock is free: no task
\* holds it across a request, and the other task enters its lock blocks,
\* and sends its own requests, without waiting for the answer.
C16_NoLockAcrossRequest ==
    (\E t \in Tasks : task[t].pc # "idle") => lock = Free

\* the commands of the two tasks, sent to different sessions, are in flight
\* at the same time
C16_Witness ==
    /\ task["t1"].pc = "cmd_post" /\ task["t2"].pc = "cmd_post"
    /\ task["t1"].id # task["t2"].id
    /\ task["t1"].calls # task["t2"].calls
    /\ lock = Free

\* C17: a command whose POST was answered ends in that step, having issued
\* that one request.  Answered 200, send_command returns the decoded body
\* as it is (and so does navigate, which returns send_command's result), and
\* send_command leaves the registry as it was; answered with any other
\* status, it raises the body's error field, or else "Command failed: " and
\* the status, and the registry is as it was.
C17_ReturnsBodyOn200Only ==
    [][\A t \in Tasks :
          (task[t].pc = "cmd_post" /\ task'[t] # task[t]
             /\ last'.resp.kind = "answer") =>
              /\ task'[t].pc = "idle"
              /\ last'.rec.calls = task[t].calls /\ Len(last'.rec.calls) = 1
              /\ IF last'.resp.status = 200
                 THEN /\ last'.rec.op \in {"send_command", "navigate"} =>
                            last'.rec.ret = [kind |-> "data", data |-> last'.resp.data]
                      /\ last'.rec.op # "navigate" => instances' = instances
                 ELSE /\ last'.rec.ret =
                            [kind |-> "raise", type |-> "Exception",
                             msg |-> IF "error" \in DOMAIN last'.resp.data
                                     THEN last'.resp.data["error"]
                                     ELSE "Command failed: " \o
                                          StatusText(last'.resp.status)]
                      /\ instances' = instances]_vars

\* a send_command on a tracked session, answered 201 with no message, has
\* raised after its one request
C17_Witness ==
    /\ Ended.op = "send_command" /\ Answered /\ last.resp.status = 201
    /\ Ended.ret.kind = "raise" /\ Ended.ret.msg = "Command failed: 201"
    /\ Len(Ended.calls) = 1
    /\ Ended.id \in SessionIds /\ Ended.id \in DOMAIN instances

\* C18: a spawn_browser that raises either raises PaymentRequiredError, and
\* then its POST was answered 402 and the error carries the decoded body
\* whole; or it raises the generic creation error, made of "Failed to create
\* browser session: " and the cause (the failure of the request, the body's
\* error field, or the status), and its in-progress instance is in state
\* error.  A spawn_browser whose request fails raises.
C18_SpawnFailureIsGeneric ==
    [][last'.rec.op = "spawn_browser" =>
          LET ret == last'.rec.ret
              resp == last'.resp
              cause == IF resp.kind = "transport" THEN "transport"
                       ELSE IF "error" \in DOMAIN resp.data THEN resp.data["error"]
                       ELSE "API error " \o StatusText(resp.status)
          IN  /\ resp.kind = "transport" => ret.kind = "raise"
              /\ ret.kind = "raise" =>
                    IF ret.type = "PaymentRequiredError"
                    THEN /\ resp.kind = "answer" /\ resp.status = 402
                         /\ ret.payment_info = resp.data
                    ELSE /\ resp.status # 402
                         /\ ret = [kind |-> "raise", type |-> "Exception",
                                    msg |-> "Failed to create browser session: " \o cause]
                         /\ last'.rec.inst.state = "error"]_vars

\* a spawn_browser whose request failed has raised the generic error, its
\* instance in state error and stored under no key
C18_Witness ==
    /\ Ended.op = "spawn_browser" /\ last.resp.kind = "transport"
    /\ Ended.ret.kind = "raise" /\ Ended.ret.type = "Exception"
    /\ Ended.inst.state = "error" /\ Ended.inst.instance_id = Pending
    /\ \A k \in DOMAIN instances : instances[k].instance.instance_id # Pending

\* C19 (the claim as stated): a spawn_browser whose POST was answered with a
\* 2xx status has returned the instance of the answer's session_id, and the
\* registry holds under that id a record whose cached state is ready.
C19_Every2xxCreates ==
    (Ended.op = "spawn_browser" /\ Answered
       /\ last.resp.status >= 200 /\ last.resp.status <= 299
       /\ "session_id" \in DOMAIN last.resp.data) =>
        /\ Ended.ret.kind = "instance"
        /\ Ended.ret.instance.instance_id = last.resp.data["session_id"]
        /\ last.resp.data["session_id"] \in DOMAIN instances
        /\ instances[last.resp.data["session_id"]].instance.state = "ready"

\* a command that returns on a session tracked before and after the step
Succeeds(t, k) ==
    /\ task[t].pc = "cmd_post" /\ task[t].id = k /\ task'[t] # task[t]
    /\ last'.rec.ret.kind \in {"data", "page"}
    /\ k \in DOMAIN instances /\ k \in DOMAIN instances'

\* C20 (the claim as stated): every command that returns on a tracked
\* session has moved that session's cached last_activity forward.
C20_EveryCommandStampsActivity ==
    [][\A t \in Tasks, k \in Keys :
          Succeeds(t, k) =>
              instances'[k].instance.last_activity
                 > instances[k].instance.last_activity]_vars

\* C20 (amended): of the commands that return on a tracked session, navigate
\* moves that session's cached last_activity forward, and every other one
\* leaves the registry, that stamp included, as it was.
C20_OnlyNavigateStampsActivity ==
    [][\A t \in Tasks, k \in Keys :
          Succeeds(t, k) =>
              IF last'.rec.op = "navigate"
              THEN instances'[k].instance.last_activity
                      = instances[k].instance.last_activity + 1
              ELSE instances' = instances]_vars

\* a send_command has returned on a session that a navigate stamped before
C20_Witness ==
    /\ Ended.op = "send_command" /\ Ended.ret.kind = "data"
    /\ Ended.id \in SessionIds /\ Ended.id \in DOMAIN instances
    /\ instances[Ended.id].instance.last_activity = 1
    /\ instances[Ended.id].instance.state = "ready"

\* C28 (the claim as stated): every lookup of a record by its id that an
\* operation has made, it made while it held the lock.
C28_LookupsUnderLock ==
    \A i \in 1..Len(Ended.acc) :
        Ended.acc[i].kind = "read" => Ended.acc[i].holder = Ended.by

\* C30: a navigate whose command was answered 200 after its id left the
\* registry returns the decoded answer, raises nothing, and leaves the
\* registry as it is: no record is stored for the id again.
C30_UpdateOfClosedIsNoOp ==
    [][\A t \in Tasks :
          (task[t].pc = "cmd_post" /\ task[t].op = "navigate"
             /\ task'[t] # task[t]
             /\ last'.resp.kind = "answer" /\ last'.resp.status = 200
             /\ task[t].id \notin DOMAIN instances) =>
              /\ last'.rec.ret = [kind |-> "data", data |-> last'.resp.data]
              /\ instances' = instances
              /\ task[t].id \notin DOMAIN instances']_vars

\* a navigate has returned its answer on a session that was tracked when
\* its command was sent and that the other task closed before the answer
C30_Witness ==
    /\ Ended.op = "navigate" /\ Ended.ret.kind = "data"
    /\ Len(Ended.calls) = 1
    /\ Ended.id \in issued /\ Ended.id \notin DOMAIN instances
    /\ \E i \in 1..Len(Ended.acc) : Ended.acc[i].kind = "read"
    /\ \A i \in 1..Len(Ended.acc) : Ended.acc[i].kind # "update"

----------------------------------------------------------------------------
(* The tools and resources of server.py.  A tool awaits one operation of   *)
(* the manager and then runs to its end without another await, so what it  *)
(* hands to its caller is a function of the record rec the operation ended *)
(* with and of the registry reg at that moment.                            *)

\* the tool returns value v, or an exception that says msg leaves it
Returned(v) == [kind |-> "value", value |-> v]
Raised(msg) == [kind |-> "raise", msg |-> msg]

\* str(e) of what the manager raised
StrOf(ret) == IF "msg" \in DOMAIN ret THEN ret.msg ELSE "Payment required"

\* a tool with no handler: the manager's exception leaves it as it is
Propagated(ret) == Raised(StrOf(ret))

\* BrowserManager.get_instance
get_instance(reg, instance_id) ==
    IF Tracked(reg, instance_id) THEN reg[instance_id].instance ELSE NoInst

\* (mutant) the tool divides a bare number from 1000 on
ToolPriceUsdFrom1000(pi) ==
    LET price == IF "price" \in DOMAIN pi THEN pi["price"] ELSE Num(0, 0)
    IN  IF price.t = "num" /\ price.d >= 1000 * Pow10(price.s)
        THEN Value(price.d, price.s + 6)
        ELSE IF price.t = "dict"
        THEN Float(IF "amount" \in DOMAIN price.f THEN price.f["amount"] ELSE Num(0, 0))
        ELSE Float(price)

\* the price rule of the spawn_browser tool
ToolPriceUsd(pi) ==
    LET price == IF "price" \in DOMAIN pi THEN pi["price"] ELSE Num(0, 0)
    IN  IF IsMicro(price) THEN Value(price.d, price.s + 6)
        ELSE IF price.t = "dict"
        THEN Float(IF "amount" \in DOMAIN price.f THEN price.f["amount"] ELSE Num(0, 0))
        ELSE Float(price)

\* round(x, 4), to the nearest (a tie, which no price here makes, to even)
Round4(x) ==
    IF x.s <= 4 THEN x
    ELSE LET unit == Pow10(x.s - 4)
             q == x.d \div unit
             r == x.d % unit
         IN  Decimal(IF 2 * r > unit \/ (2 * r = unit /\ q % 2 = 1) THEN q + 1 ELSE q, 4)

\* the networks as the tool lists them: token defaults to USDC
ToolNetworks(pi) ==
    LET networks == IF "networks" \in DOMAIN pi THEN pi["networks"] ELSE <<>>
    IN  [i \in 1..Len(networks) |->
            [network |-> Get(networks[i], "network", None),
             address |-> Get(networks[i], "address", None),
             token |-> Get(networks[i], "token", "USDC")]]

Instructions ==
    <<"1. Send the exact USDC amount to one of the wallet addresses above.",
      "2. Wait for the transaction to confirm (~2s Base, ~400ms Solana).",
      "3. Call spawn_browser again with payment_signature set to the tx hash.">>

\* (mutant) no exception is taken for a payment-required one
IsPaymentRequiredNever(ret) == FALSE

\* except PaymentRequiredError as e
IsPaymentRequired(ret) == ret.kind = "raise" /\ ret.type = "PaymentRequiredError"

\* the spawn_browser tool
spawn_browser(rec, reg) ==
    IF rec.ret.kind = "instance"
    THEN Returned([instance_id |-> rec.ret.instance.instance_id,
                   state |-> rec.ret.instance.state])
    ELSE IF IsPaymentRequired(rec.ret)
    THEN LET price_usd == ToolPriceUsd(rec.ret.payment_info)
         IN  IF price_usd.ok
             THEN Returned([status |-> "payment_required",
                            price_usdc |-> Round4(price_usd.usd),
                            networks |-> ToolNetworks(rec.ret.payment_info),
                            instructions |-> Instructions])
             ELSE Raised(price_usd.type)
    ELSE Raised("Failed to spawn browser: " \o StrOf(rec.ret))

\* the get_instance_state tool: what get_page_state raises is passed over,
\* and the cached view, if there is one, is returned instead
get_instance_state(rec, reg) ==
    IF rec.ret.kind = "page" THEN Returned(rec.ret.page)
    ELSE LET inst == get_instance(reg, rec.id)
         IN  IF inst # NoInst
             THEN Returned([instance_id |-> inst.instance_id, state |-> inst.state,
                            current_url |-> inst.current_url, title |-> inst.title])
             ELSE Returned([error |-> "Instance not found: " \o rec.id])

\* the resource browser://{instance_id}/state
get_browser_state_resource(rec) ==
    IF rec.ret.kind = "page" THEN Returned(rec.ret.page)
    ELSE Returned([error |-> "Instance not found"])

\* the resource browser://{instance_id}/cookies
get_cookies_resource(rec) ==
    IF rec.ret.kind = "data" THEN Returned(rec.ret.data)
    ELSE Returned([error |-> "Instance not found"])

\* the execute_script tool
execute_script(rec) ==
    IF rec.ret.kind = "data"
    THEN Returned([success |-> TRUE, result |-> Get(rec.ret.data, "result", None),
                   error |-> None])
    ELSE Returned([success |-> FALSE, result |-> None, error |-> StrOf(rec.ret)])

\* the navigate tool
navigate(rec) ==
    IF rec.ret.kind = "data"
    THEN Returned([url |-> Get(rec.ret.data, "url", rec.url),
                   title |-> Get(rec.ret.data, "title", ""), success |-> TRUE])
    ELSE Propagated(rec.ret)

\* the get_cookies tool
get_cookies(rec) ==
    IF rec.ret.kind = "data" THEN Returned(rec.ret.data) ELSE Propagated(rec.ret)

\* the tools and resources that await each operation of the manager
ToolsOf(op) ==
    CASE op = "spawn_browser" -> {"spawn_browser"}
      [] op = "get_page_state" -> {"get_instance_state", "get_browser_state_resource"}
      [] op = "execute_script" -> {"execute_script"}
      [] op = "navigate" -> {"navigate"}
      [] op = "get_cookies" -> {"get_cookies", "get_cookies_resource"}
      [] OTHER -> {}

\* what tool hands to its caller when the operation it awaited ends as rec
ToolOut(tool, rec, reg) ==
    CASE tool = "spawn_browser" -> spawn_browser(rec, reg)
      [] tool = "get_instance_state" -> get_instance_state(rec, reg)
      [] tool = "get_browser_state_resource" -> get_browser_state_resource(rec)
      [] tool = "execute_script" -> execute_script(rec)
      [] tool = "navigate" -> navigate(rec)
      [] tool = "get_cookies" -> get_cookies(rec)
      [] tool = "get_cookies_resource" -> get_cookies_resource(rec)

\* the prices a 402 body may state, and no price at all
Prices ==
    {Num(1500000, 0), Num(1001, 0), Num(1000, 0), Num(999, 0), Num(0, 0),
     Num(30, 2), Num(10005, 1),
     Text(<<"0", ".", "3", "0">>), Text(<<"1", "5", "0", "0", "0", "0", "0">>),
     Text(<<"a", "b", "c">>),
     Obj("amount" :> Text(<<"0", ".", "3", "0">>)), Obj("amount" :> Num(30, 2)),
     Obj("amount" :> Num(1500000, 0)), Obj("amount" :> Null), Obj(EmptyDict),
     Null}

PricedBodies ==
    {("price" :> price) @@ ("networks" :> <<BaseNet, SolNet>>) : price \in Prices}
    \cup {"networks" :> <<BaseNet>>, EmptyDict}

ToolCreateStatuses == {200, 402, 500}

ToolCreateBodies(status) ==
    IF status = 402 THEN PricedBodies
    ELSE IF status = 200 THEN ConcCreateBodies(status)
    ELSE ErrorBodies

ToolNext ==
    \/ \E t \in Callers : SpawnBrowser(t) /\ UNCHANGED script
    \/ \E t \in Callers, status \in ToolCreateStatuses :
          \E data \in ToolCreateBodies(status) :
             SpawnResponse(t, status, data) /\ UNCHANGED script
    \/ \E t \in Callers : SpawnTransportError(t) /\ UNCHANGED script
    \/ \E t \in Callers, id \in ArgIds, url \in ReqUrls :
          SendCommand(t, "navigate", id, url) /\ UNCHANGED script
    \/ \E t \in Callers, id \in ArgIds :
          SendCommand(t, "get_page_state", id, None) /\ UNCHANGED script
    \/ \E t \in Callers, op \in {"execute_script", "get_cookies"}, id \in ArgIds :
          CatalogueOp(t, op, id, TRUE) /\ UNCHANGED script
    \/ \E t \in Callers, status \in CommandStatuses :
          \E data \in (IF status = 200 THEN {EmptyDict} ELSE ErrorBodies) :
             CommandResponse(t, status, data) /\ UNCHANGED script
    \/ \E t \in Callers : CommandTransportError(t) /\ UNCHANGED script

ToolSpec == Init /\ [][ToolNext]_vars

----------------------------------------------------------------------------
(* The catalogue and the identity-bundle operations, one caller            *)

\* human_like is an argument of type_text only
HumanLike(op) == IF op = "type_text" THEN BOOLEAN ELSE {TRUE}

\* name is an argument of save_profile only, profile_id of load_profile and
\* of delete_profile
ProfileNames(op) == IF op = "save_profile" THEN {None, "n1"} ELSE {None}
ProfileArgs(op) ==
    IF op \in {"load_profile", "delete_profile"} THEN {"p1"} ELSE {None}

DispatchNext ==
    \/ \E t \in Callers : SpawnBrowser(t) /\ UNCHANGED script
    \/ \E t \in Callers, status \in ConcCreateStatuses :
          \E data \in CreateBodies(status) :
             SpawnResponse(t, status, data) /\ UNCHANGED script
    \/ \E t \in Callers, op \in CatalogueOps, id \in ArgIds :
          \E human_like \in HumanLike(op) :
             CatalogueOp(t, op, id, human_like) /\ UNCHANGED script
    \/ \E t \in Callers, status \in CommandStatuses :
          \E data \in (IF status = 200 THEN {EmptyDict} ELSE ErrorBodies) :
             CommandResponse(t, status, data) /\ UNCHANGED script
    \/ \E t \in Callers : CommandTransportError(t) /\ UNCHANGED script
    \/ \E t \in Callers, op \in ProfileOps, id \in ArgIds :
          \E name \in ProfileNames(op), profile_id \in ProfileArgs(op) :
             ProfileOp(t, op, id, name, profile_id) /\ UNCHANGED script
    \/ \E t \in Callers, status \in CommandStatuses :
          \E data \in (IF status = 200 THEN {EmptyDict} ELSE ErrorBodies) :
             ProfileResponse(t, status, data) /\ UNCHANGED script
    \/ \E t \in Callers : ProfileTransportError(t) /\ UNCHANGED script

DispatchSpec == Init /\ [][DispatchNext]_vars

\* the action the catalogue fixes for each operation
FixedAction(op, human_like) ==
    CASE op = "click" -> "click"
      [] op = "type_text" -> IF human_like THEN "type_slow" ELSE "type"
      [] op = "screenshot" -> "screenshot"
      [] op = "get_content" -> "content"
      [] op = "get_text" -> "text"
      [] op = "execute_script" -> "evaluate"
      [] op = "get_cookies" -> "cookies"
      [] op = "set_cookie" -> "set_cookie"
      [] op = "clear_cookies" -> "clear_cookies"
      [] op = "get_local_storage" -> "local_storage"
      [] op = "set_local_storage" -> "set_local_storage"
      [] op = "wait_for_element" -> "wait"
      [] op = "press_key" -> "press"
      [] op = "scroll" -> "scroll"

\* C29: a catalogue operation on a tracked id issues one request, the
\* command POST of that session, whose body holds under "action" the
\* operation's fixed action (type_slow or type for type_text, by
\* human_like) next to the operation's params and nothing else; on an
\* untracked id it issues none; it ends with what send_command ends with
\* (the 200 body returned, any other outcome raised) after that one
\* request; and no step of it changes the registry.
C29_CatalogueIsOneCommand ==
    [][\A t \in Tasks :
          LET self == After(t)
          IN  (self.op \in CatalogueOps /\ task'[t] # task[t]) =>
                /\ instances' = instances
                /\ Len(self.calls) <= 1
                /\ Len(self.calls) = 1 <=> Tracked(instances, self.id)
                /\ self.calls # <<>> =>
                      /\ self.calls[1] = CommandCall(Credentials(instances[self.id]))
                      /\ self.req.body["action"] =
                            FixedAction(self.op, self.args.human_like)
                      /\ self.req.body =
                            ("action" :> FixedAction(self.op, self.args.human_like))
                            @@ self.args.params
                /\ (Ends(t) /\ last'.resp.kind = "answer") =>
                      IF last'.resp.status = 200
                      THEN self.ret = [kind |-> "data", data |-> last'.resp.data]
                      ELSE self.ret.kind = "raise"]_vars

\* a type_text with human_like false has sent "type" and returned the answer
C29_Witness ==
    /\ Ended.op = "type_text" /\ ~Ended.args.human_like
    /\ Len(Ended.calls) = 1
    /\ Ended.req.body["action"] = "type"
    /\ Ended.req.body["text"] = "hi"
    /\ Ended.ret.kind = "data"

\* C24: an identity-bundle operation called on an untracked id ends at once
\* with the unknown-instance error, having issued no request; called on a
\* tracked id it issues one request, with the bearer token of that id's
\* record: save_profile and load_profile POST to that record's session
\* (.../profile, .../profile/load), list_profiles GETs /v1/profiles and
\* delete_profile DELETEs /v1/profiles/<profile_id>, neither naming the
\* session; it issues no other request; answered 200 it returns the body,
\* answered anything else it raises; and no step of it changes the registry.
C24_ProfileOperations ==
    [][\A t \in Tasks :
          LET self == After(t)
          IN  (self.op \in ProfileOps /\ task'[t] # task[t]) =>
                /\ instances' = instances
                /\ Len(self.calls) <= 1
                /\ (task[t].pc = "idle" /\ ~Tracked(instances, self.id)) =>
                      /\ self.calls = <<>>
                      /\ self.pc = "idle"
                      /\ self.ret = Raise("Exception",
                                          "No browser instance: " \o self.id)
                /\ (task[t].pc = "idle" /\ Tracked(instances, self.id)) =>
                      LET rec == instances[self.id]
                          sid == Str(rec.session_id)
                          call == self.calls[1]
                      IN  /\ self.pc # "idle"
                          /\ Len(self.calls) = 1
                          /\ call.auth = "Bearer " \o Str(rec.session_token)
                          /\ self.req.headers["Authorization"] = call.auth
                          /\ self.op = "save_profile" =>
                                /\ call.method = "POST"
                                /\ call.path = <<"v1", "sessions", sid, "profile">>
                          /\ self.op = "load_profile" =>
                                /\ call.method = "POST"
                                /\ call.path = <<"v1", "sessions", sid, "profile", "load">>
                          /\ self.op = "list_profiles" =>
                                /\ call.method = "GET"
                                /\ call.path = <<"v1", "profiles">>
                          /\ self.op = "delete_profile" =>
                                /\ call.method = "DELETE"
                                /\ call.path = <<"v1", "profiles", self.args.profile_id>>
                /\ (Ends(t) /\ last'.resp.kind = "answer") =>
                      IF last'.resp.status = 200
                      THEN self.ret = [kind |-> "data", data |-> last'.resp.data]
                      ELSE self.ret.kind = "raise"
                /\ (Ends(t) /\ last'.resp.kind = "transport") =>
                      self.ret.kind = "raise"]_vars

\* a load_profile on a session whose token is not its id was answered 201
\* and has raised
C24_Witness ==
    /\ Ended.op = "load_profile"
    /\ Len(Ended.calls) = 1
    /\ Ended.calls[1].auth = "Bearer k1"
    /\ last.resp.kind = "answer" /\ last.resp.status = 201
    /\ Ended.ret = Raise("Exception", "Load profile failed: 201")
    /\ Ended.id \in DOMAIN instances

----------------------------------------------------------------------------
(* The creation request: spawn_browser over the options and the            *)
(* environment variables it reads                                          *)

Countries == {None, "", "US"}
Durations == {NoneInt, <<0>>, <<30>>, <<60>>}
ProfileIds == {None, "", "p1"}
OptionSignatures == {None, "", "sigA"}
EnvSignatures == {None, "", "sigE"}
EnvKeys == {None, "", "key"}

OptionSets ==
    [country : Countries, duration_minutes : Durations, profile_id : ProfileIds,
     payment_signature : OptionSignatures]
Environs == [PAYMENT_SIGNATURE : EnvSignatures, BROWSER_INTERNAL_KEY : EnvKeys]

RequestNext ==
    \/ \E t \in Callers, options \in OptionSets, environ \in Environs :
          SpawnRequest(t, options, environ) /\ UNCHANGED script
    \/ \E t \in Callers, data \in PayBodies :
          SpawnResponse(t, 402, data) /\ UNCHANGED script
    \/ \E t \in Callers : SpawnTransportError(t) /\ UNCHANGED script

RequestSpec == Init /\ [][RequestNext]_vars

\* the creation requests in flight
Creating == {t \in Tasks : task[t].pc = "spawn_post"}

\* C25: the creation request carries the payment header exactly when the
\* payment_signature option or else the PAYMENT_SIGNATURE variable is given
\* (a non-empty string), with the option's value if the option is given and
\* the variable's otherwise; it carries the internal-key header exactly
\* when BROWSER_INTERNAL_KEY is given, with its value, whatever the payment
\* sources are.
C25_CredentialHeaders ==
    \A t \in Creating :
       LET options == task[t].args.options
           environ == task[t].args.environ
           headers == task[t].req.headers
       IN  /\ Truthy(options.payment_signature) =>
                 Get(headers, "Payment-Signature", None) = options.payment_signature
           /\ (~Truthy(options.payment_signature)
                  /\ Truthy(environ.PAYMENT_SIGNATURE)) =>
                 Get(headers, "Payment-Signature", None) = environ.PAYMENT_SIGNATURE
           /\ (~Truthy(options.payment_signature)
                  /\ ~Truthy(environ.PAYMENT_SIGNATURE)) =>
                 "Payment-Signature" \notin DOMAIN headers
           /\ "X-Internal-Key" \in DOMAIN headers <=>
                 Truthy(environ.BROWSER_INTERNAL_KEY)
           /\ Truthy(environ.BROWSER_INTERNAL_KEY) =>
                 headers["X-Internal-Key"] = environ.BROWSER_INTERNAL_KEY

\* a request with both credentials, the option and the variable both given
C25_Witness ==
    \E t \in Creating :
       /\ task[t].args.options.payment_signature = "sigA"
       /\ task[t].args.environ.PAYMENT_SIGNATURE = "sigE"
       /\ task[t].args.environ.BROWSER_INTERNAL_KEY = "key"
       /\ task[t].req.headers["Payment-Signature"] = "sigA"
       /\ task[t].req.headers["X-Internal-Key"] = "key"

\* C26: the creation body always holds durationMinutes: the value of the
\* duration_minutes option whenever the option is set (is a number), and 60
\* otherwise; it holds country and profile_id exactly when the option is a
\* non-empty string, with the option's value.
C26_BodyFollowsOptions ==
    \A t \in Creating :
       LET options == task[t].args.options
           body == task[t].req.body
       IN  /\ "durationMinutes" \in DOMAIN body
           /\ options.duration_minutes # NoneInt =>
                 body["durationMinutes"] = options.duration_minutes[1]
           /\ options.duration_minutes = NoneInt => body["durationMinutes"] = 60
           /\ "country" \in DOMAIN body <=> Truthy(options.country)
           /\ Truthy(options.country) => body["country"] = options.country
           /\ "profile_id" \in DOMAIN body <=> Truthy(options.profile_id)
           /\ Truthy(options.profile_id) => body["profile_id"] = options.profile_id

\* the calls of _get_http task t made in a step, and the requests it issued
FreshGot(t) ==
    LET before == IF task[t].pc = "idle" THEN 0 ELSE Len(task[t].got)
    IN  SubSeq(After(t).got, before + 1, Len(After(t).got))

FreshCalls(t) ==
    LET before == IF task[t].pc = "idle" THEN 0 ELSE Len(task[t].calls)
    IN  SubSeq(After(t).calls, before + 1, Len(After(t).calls))

\* C27: no client exists at first; a task that issues a request has called
\* _get_http just before and the client is open as the request leaves; that
\* call created a client only if there was none or it was closed, and
\* otherwise reused the open one; an open client changes only by being
\* closed at the end of a cleanup, and a client comes to be open only by a
\* call of _get_http that created it.
C27_OneSharedClient ==
    [][/\ \A t \in Tasks :
             /\ Len(FreshCalls(t)) = Len(FreshGot(t))
             /\ Len(FreshCalls(t)) <= 1
             /\ FreshCalls(t) # <<>> => http' = "open"
             /\ FreshGot(t) = <<"created">> => http \in {"none", "closed"}
             /\ FreshGot(t) = <<"reused">> => (http = "open" /\ http' = "open")
       /\ (http = "open" /\ http' # "open") =>
             (http' = "closed" /\ last'.rec.op = "cleanup")
       /\ (http # "open" /\ http' = "open") =>
             \E t \in Tasks : FreshGot(t) = <<"created">>
       /\ http' # "none" => (http # "none" \/ \E t \in Tasks : FreshCalls(t) # <<>>)]_vars

\* a spawn_browser is in flight through a client created anew, the one
\* that served the sessions before it having been closed by a cleanup
C27_Witness ==
    /\ task["t1"].pc = "spawn_post" /\ task["t1"].got = <<"created">>
    /\ http = "open"
    /\ issued # {}
    /\ instances = EmptyDict

\* the remote call of the operation that has just ended failed: in
\* transport, or answered with an error status
RemoteFailed ==
    \/ last.resp.kind = "transport"
    \/ last.resp.kind = "answer" /\ last.resp.status \in {402, 500}

\* the caller of a tool is told of a failure: by an exception, or by a value
\* that names an error or asks for payment
ToldOfFailure(out) ==
    \/ out.kind = "raise"
    \/ /\ out.kind = "value"
       /\ \/ "error" \in DOMAIN out.value /\ out.value.error # None
          \/ "status" \in DOMAIN out.value /\ out.value.status = "payment_required"

\* C21: when an operation other than close, close_all and cleanup has ended
\* on an unknown instance or on a failed remote call, the manager has raised
\* and every tool or resource that awaited it tells its caller of a failure.
C21_NoFailureSwallowed ==
    (/\ Ended.op \notin {"none", "close_browser", "close_all", "cleanup"}
     /\ \/ RemoteFailed
        \/ Ended.op # "spawn_browser" /\ Ended.calls = <<>>) =>
       /\ Ended.ret.kind = "raise"
       /\ \A tool \in ToolsOf(Ended.op) :
             ToldOfFailure(ToolOut(tool, Ended, instances))

\* C22: when spawn_browser has ended, the tool returns a value with status
\* payment_required, the price, the (network, address) pairs of the answer
\* and the three instructions if the manager raised PaymentRequiredError;
\* it raises if the manager raised anything else; and it returns a value
\* in no other case than a payment-required outcome or a created session.
C22_PaymentReturnedOthersRaised ==
    Ended.op = "spawn_browser" =>
       LET out == ToolOut("spawn_browser", Ended, instances)
           ret == Ended.ret
       IN  /\ (ret.kind = "raise" /\ ret.type = "PaymentRequiredError") =>
                 /\ out.kind = "value"
                 /\ out.value.status = "payment_required"
                 /\ out.value.price_usdc = Round4(PaymentRequiredError(ret.payment_info).usd)
                 /\ LET networks == Get(ret.payment_info, "networks", <<>>)
                    IN  /\ Len(out.value.networks) = Len(networks)
                        /\ \A i \in 1..Len(networks) :
                              /\ out.value.networks[i].network = networks[i]["network"]
                              /\ out.value.networks[i].address = networks[i]["address"]
                 /\ Len(out.value.instructions) = 3
           /\ (ret.kind = "raise" /\ ret.type # "PaymentRequiredError") =>
                 out.kind = "raise"
           /\ out.kind = "value" =>
                 \/ ret.kind = "instance"
                 \/ ret.kind = "raise" /\ ret.type = "PaymentRequiredError"

\* the tool has returned payment guidance with two networks and a price
C22_Witness ==
    /\ Ended.op = "spawn_browser"
    /\ Ended.ret.kind = "raise" /\ Ended.ret.type = "PaymentRequiredError"
    /\ LET out == ToolOut("spawn_browser", Ended, instances)
       IN  /\ out.kind = "value"
           /\ out.value.price_usdc = [d |-> 15, s |-> 1]
           /\ Len(out.value.networks) = 2
           /\ out.value.networks[2].address = "So1"

\* the price of the 402 answer that has just ended a spawn_browser
AnsweredPrice == Get(last.resp.data, "price", Num(0, 0))

\* C23: for the price of every 402 answer, the rule of PaymentRequiredError
\* and the rule of the tool give the same result; a bare number above 1000
\* gives its millionth; otherwise an amount object gives its amount
\* field as a float (0 without the field); otherwise the value itself is
\* taken, as a float; so 1500000 gives 1.5, {amount: "0.30"} and a bare
\* 0.30 give 0.3, and 1000 and 999 stay 1000 and 999.
C23_PriceNormalisation ==
    (Ended.op = "spawn_browser" /\ last.resp.kind = "answer"
       /\ last.resp.status = 402) =>
       LET price == AnsweredPrice
           usd == PaymentRequiredError(last.resp.data)
       IN  /\ usd = ToolPriceUsd(last.resp.data)
           /\ usd.ok <=> (Ended.ret.kind = "raise"
                             /\ Ended.ret.type = "PaymentRequiredError")
           /\ (price.t = "num" /\ price.d > 1000 * Pow10(price.s)) =>
                 usd = Value(price.d, price.s + 6)
           /\ (price.t = "num" /\ price.d <= 1000 * Pow10(price.s)) =>
                 usd = Value(price.d, price.s)
           /\ (price.t = "dict" /\ "amount" \in DOMAIN price.f) =>
                 usd = Float(price.f["amount"])
           /\ (price.t = "dict" /\ "amount" \notin DOMAIN price.f) =>
                 usd = Value(0, 0)
           /\ price.t \in {"str", "null"} => usd = Float(price)
           /\ price = Num(1500000, 0) => usd = Value(15, 1)
           /\ price = Obj("amount" :> Text(<<"0", ".", "3", "0">>)) => usd = Value(3, 1)
           /\ price = Num(30, 2) => usd = Value(3, 1)
           /\ price = Num(1000, 0) => usd = Value(1000, 0)
           /\ price = Num(999, 0) => usd = Value(999, 0)

\* a 402 that states its price as {amount: "0.30"} has been answered, and
\* both rules make 0.3 of it
C23_Witness ==
    /\ Ended.op = "spawn_browser"
    /\ last.resp.kind = "answer" /\ last.resp.status = 402
    /\ AnsweredPrice = Obj("amount" :> Text(<<"0", ".", "3", "0">>))
    /\ Ended.ret.kind = "raise" /\ Ended.ret.type = "PaymentRequiredError"
    /\ PaymentRequiredError(last.resp.data).usd = [d |-> 3, s |-> 1]
    /\ ToolPriceUsd(last.resp.data).usd = [d |-> 3, s |-> 1]

\* C32: a close_browser whose DELETE is answered or fails, whether the
\* record it looked up is still in the registry or has been removed
\* meanwhile by another close of the same id, ends in that step, returns
\* True and leaves its id out of the registry; it never raises.
C32_ConcurrentClosesReturnTrue ==
    [][\A t \in Tasks :
          (task[t].pc = "close_delete" /\ task[t].op = "close_browser"
             /\ task'[t] # task[t]) =>
                /\ task'[t].pc = "idle"
                /\ last'.rec.by = t
                /\ last'.rec.ret = [kind |-> "bool", bool |-> TRUE]
                /\ task[t].id \notin DOMAIN instances'
                /\ \A k \in DOMAIN instances' :
                      k \in DOMAIN instances /\ instances'[k] = instances[k]]_vars

\* a close_browser has returned True whose `del`, after its DELETE was
\* answered, found the key removed by the other task
C32_Witness ==
    /\ Ended.op = "close_browser"
    /\ Ended.ret = [kind |-> "bool", bool |-> TRUE]
    /\ last.resp.kind = "answer"
    /\ Len(Ended.acc) = 3
    /\ Ended.acc[1].kind = "read" /\ Ended.acc[2].kind = "delete"
    /\ Ended.acc[3].kind = "read"
    /\ Ended.id \notin DOMAIN instances

----------------------------------------------------------------------------
(* Every command of the manager on created sessions, answered 200 with     *)
(* bodies that report a url and a title or not, one caller                 *)

ViewNext ==
    \/ \E t \in Callers : SpawnBrowser(t) /\ UNCHANGED script
    \/ \E t \in Callers, data \in ConcCreateBodies(200) :
          SpawnResponse(t, 200, data) /\ UNCHANGED script
    \/ \E t \in Callers, id \in SessionIds, url \in ReqUrls :
          SendCommand(t, "navigate", id, url) /\ UNCHANGED script
    \/ \E t \in Callers, id \in SessionIds :
          SendCommand(t, "get_page_state", id, None) /\ UNCHANGED script
    \/ \E t \in Callers, op \in CatalogueOps, id \in SessionIds :
          \E human_like \in HumanLike(op) :
             CatalogueOp(t, op, id, human_like) /\ UNCHANGED script
    \/ \E t \in Callers, data \in CommandBodies :
          CommandResponse(t, 200, data) /\ UNCHANGED script
    \/ \E t \in Callers, op \in ProfileOps, id \in SessionIds :
          \E name \in ProfileNames(op), profile_id \in ProfileArgs(op) :
             ProfileOp(t, op, id, name, profile_id) /\ UNCHANGED script
    \/ \E t \in Callers, data \in CommandBodies :
          ProfileResponse(t, 200, data) /\ UNCHANGED script

ViewSpec == Init /\ [][ViewNext]_vars

\* C31: no step of a catalogue operation, of an identity-bundle operation
\* or of get_page_state, whatever the answer it takes holds, changes the
\* keys of the registry or the cached current_url, title and state of any
\* tracked instance.
C31_OnlyNavigateChangesView ==
    [][\A t \in Tasks :
          (After(t).op \in CatalogueOps \cup ProfileOps \cup {"get_page_state"}
             /\ task'[t] # task[t]) =>
                /\ DOMAIN instances' = DOMAIN instances
                /\ \A k \in DOMAIN instances :
                      /\ instances'[k].instance.current_url
                            = instances[k].instance.current_url
                      /\ instances'[k].instance.title = instances[k].instance.title
                      /\ instances'[k].instance.state = instances[k].instance.state]_vars

\* a click on an instance whose cached url is u1 was answered 200 with
\* another url and a title, and the cached view is as it was
C31_Witness ==
    /\ Ended.op = "click" /\ Ended.ret.kind = "data"
    /\ last.resp.data = ("url" :> "u2") @@ ("title" :> "T")
    /\ Ended.id \in DOMAIN instances
    /\ instances[Ended.id].instance.current_url = "u1"
    /\ instances[Ended.id].instance.title = ""

\* C33: a navigate that ends on an unknown instance, on an answer other
\* than 200 or on a failure of its request has raised, and the registry,
\* with the cached current_url, title, state and last_activity of every
\* record, is as it was before that step.
C33_FailedNavigateLeavesView ==
    [][\A t \in Tasks :
          (After(t).op = "navigate" /\ task'[t] # task[t] /\ task'[t].pc = "idle"
             /\ \/ last'.resp.kind \in {"none", "transport"}
                \/ last'.resp.kind = "answer" /\ last'.resp.status # 200) =>
                /\ last'.rec.ret.kind = "raise"
                /\ instances' = instances]_vars

\* a navigate on a tracked instance was answered 500 and has raised, the
\* cached view still being the one the creation left
C33_Witness ==
    /\ Ended.op = "navigate" /\ Ended.ret.kind = "raise"
    /\ last.resp.kind = "answer" /\ last.resp.status = 500
    /\ Ended.id \in SessionIds \cap DOMAIN instances
    /\ instances[Ended.id].instance.current_url = None
    /\ instances[Ended.id].instance.last_activity = 0

\* C34: a step of spawn_browser removes no key from the registry and
\* changes no record but the payment_required one, and that one only when
\* the creation was answered 402; when a creation succeeds while the
\* payment_required record is in the registry, that record is still there
\* afterwards, unchanged, and its instance is in list_instances; and the
\* payment_required key leaves the registry only in a step of a close of
\* that key.
C34_SpawnLeavesOtherRecords ==
    [][/\ \A t \in Tasks :
             (After(t).op = "spawn_browser" /\ task'[t] # task[t]) =>
                /\ \A k \in DOMAIN instances :
                      /\ k \in DOMAIN instances'
                      /\ instances'[k] # instances[k] =>
                            (k = Sentinel /\ last'.resp.kind = "answer"
                               /\ last'.resp.status = 402)
                /\ (last'.rec.ret.kind = "instance" /\ Sentinel \in DOMAIN instances) =>
                      /\ Sentinel \in DOMAIN instances'
                      /\ instances'[Sentinel] = instances[Sentinel]
                      /\ instances[Sentinel].instance \in list_instances(instances')
       /\ (Sentinel \in DOMAIN instances /\ Sentinel \notin DOMAIN instances') =>
             \E t \in Tasks : /\ task[t].pc = "close_delete"
                              /\ task[t].id = Sentinel
                              /\ task'[t] # task[t]]_vars

\* a creation has succeeded after an earlier one was answered 402: the
\* registry holds the new session next to the payment_required record
C34_Witness ==
    /\ Ended.op = "spawn_browser" /\ Ended.ret.kind = "instance"
    /\ Sentinel \in DOMAIN instances
    /\ Ended.ret.instance.instance_id \in DOMAIN instances
    /\ instances[Sentinel].instance \in list_instances(instances)
    /\ Cardinality(list_instances(instances)) = 2

\* C36: at any time every key of the registry is the instance_id of the
\* cached instance stored under it, every key but payment_required is the
\* session_id of its record, and "pending" is no key (the service issuing
\* no session of that name).
C36_KeysNameTheirRecords ==
    /\ \A k \in DOMAIN instances :
          /\ instances[k].instance.instance_id = k
          /\ k # Sentinel => instances[k].session_id = k
    /\ Pending \notin DOMAIN instances

\* the registry holds two sessions and the payment_required record, one
\* session having been navigated
C36_Witness ==
    /\ DOMAIN instances = SessionIds \cup {Sentinel}
    /\ \E k \in SessionIds : instances[k].instance.current_url # None
    /\ \A t \in Tasks : task[t].pc = "idle"

\* C37 (as stated): at any time the cached state of every record under a
\* key other than payment_required is ready and that of the
\* payment_required record is error, so that starting, navigating and
\* closed are the state of no record in the registry.
C37_StatesOfTrackedRecords ==
    \A k \in DOMAIN instances :
       /\ k # Sentinel => instances[k].instance.state = "ready"
       /\ k = Sentinel => instances[k].instance.state = "error"
       /\ instances[k].instance.state \notin {"starting", "navigating", "closed"}

----------------------------------------------------------------------------
(* Navigates of two tasks on created sessions                              *)

\* a 200 answer to a navigate: it reports no url and no title, or both
NavBodies == {EmptyDict, ("url" :> "u2") @@ ("title" :> "T")}

NavNext ==
    \/ \E t \in Tasks : SpawnBrowser(t) /\ UNCHANGED script
    \/ \E t \in Tasks, data \in ConcCreateBodies(200) :
          SpawnResponse(t, 200, data) /\ UNCHANGED script
    \/ \E t \in Tasks, id \in SessionIds, url \in ReqUrls :
          SendCommand(t, "navigate", id, url) /\ UNCHANGED script
    \/ \E t \in Tasks, data \in NavBodies :
          CommandResponse(t, 200, data) /\ UNCHANGED script
    \/ \E t \in Tasks, data \in ErrorBodies :
          CommandResponse(t, 500, data) /\ UNCHANGED script
    \/ \E t \in Tasks : CommandTransportError(t) /\ UNCHANGED script

NavSpec == Init /\ [][NavNext]_vars

\* task t's navigate on k is answered 200 in this step
NavigateSucceeds(t, k) ==
    /\ task[t].pc = "cmd_post" /\ task[t].op = "navigate" /\ task[t].id = k
    /\ task'[t] # task[t]
    /\ last'.resp.kind = "answer" /\ last'.resp.status = 200

\* C35: a record enters the registry with no cached current_url; the
\* cached current_url or title of a tracked instance changes only in the
\* step in which a navigate on that id is answered 200; and after every
\* such step on a tracked id the cache holds that navigate's url (the
\* answer's, else the requested one) together with that navigate's title
\* (the answer's, else ""), whatever another navigate on the id wrote
\* before or has still in flight.
C35_CachedUrlIsOfSomeNavigate ==
    [][\A k \in DOMAIN instances' :
          /\ k \notin DOMAIN instances => instances'[k].instance.current_url = None
          /\ (k \in DOMAIN instances
                /\ \/ instances'[k].instance.current_url
                        # instances[k].instance.current_url
                   \/ instances'[k].instance.title # instances[k].instance.title) =>
                \E t \in Tasks : NavigateSucceeds(t, k)
          /\ \A t \in Tasks :
                (k \in DOMAIN instances /\ NavigateSucceeds(t, k)) =>
                   /\ instances'[k].instance.current_url
                         = Get(last'.resp.data, "url", task[t].url)
                   /\ instances'[k].instance.title
                         = Get(last'.resp.data, "title", "")]_vars

\* two navigates ran concurrently on one id and both were answered 200;
\* the one whose update ran last named no url, and the cache holds its
\* requested url and its empty title
C35_Witness ==
    /\ Ended.op = "navigate" /\ Ended.ret.kind = "data"
    /\ last.resp.data = EmptyDict
    /\ Ended.id \in DOMAIN instances
    /\ instances[Ended.id].instance.last_activity = 2
    /\ instances[Ended.id].instance.current_url = Ended.url
    /\ instances[Ended.id].instance.title = ""

====
